---- MODULE Spec2Model ----
(***************************************************************************)
(* A model of php-syntax-analyzer: the ranking fetch and the bounded       *)
(* per-package acquisition (downloader.rs), zip extraction (extractor.rs), *)
(* the parallel directory walker (files.rs), the matcher (analyzer.rs) and *)
(* the aggregator (results.rs), driven by main.rs.                         *)
(*                                                                         *)
(* Strings are sequences of tokens: a token is a separator ("/", ".") or   *)
(* an atom of letters.  Paths are sequences of components.                 *)
(***************************************************************************)
EXTENDS Integers, Sequences, FiniteSets, TLC

VARIABLES
    \* ---- get_top_packages (downloader.rs:40-76)
    listing,      \* the registry's popular listing, by global rank (index 1 = rank 0)
    min,          \* cli.min / rangeMin
    max,          \* cli.max / rangeMax
    page,         \* next page to request
    collected,    \* entries seen so far
    packages,     \* names accumulated
    rankPc,       \* "idle" | "loop" | "await" | "ok" | "err"
    \* ---- the run (main.rs) and the target directory
    cfg,          \* the command line: [hasTerms, skip]
    mainPc,       \* "start" | "download" | "extract" | "analyze" | "report" | "exit_err" | "killed"
    topDirs,      \* which of <target>/zipballs and <target>/sources exist
    zips,         \* zip files below zipballs/: path -> [state, origin, single]
    dirs,         \* directories below sources/<vendor>/: path -> tree
    run,          \* number of the current run on this target directory
    faults,       \* local I/O errors injected so far
    crashes,      \* process kills injected so far
    \* ---- extract_packages (extractor.rs:52-113)
    extPc,        \* "idle" | "running" | "done"
    work,         \* zip path -> [stage, seen, res] of its par_iter item
    extracted,    \* the count extract_packages returns
    interrupted,  \* final paths whose extraction was killed between the last entry and the rename
    \* ---- download_and_extract_packages (downloader.rs:214-259)
    dlPc,         \* "idle" | "listing" | "stream" | "done"
    singleDist,   \* whether the archives the registry serves have one top-level directory
    tasks,        \* index into packages -> "pending" | "meta" | "download" | "ok" | "err"
    results,      \* the outcomes collected by buffer_unordered, as a bag [Ok, Err]: their order is never read
    dlRet,        \* the value download_and_extract_packages returned: [tag, value]
    net,          \* requests sent in this run: [listing, meta, archive]
    prevAllOk,    \* the previous run's acquisition returned Ok with every package Ok
    \* ---- walk_files / read_dir (files.rs:50-75)
    disk,         \* the directories at and below base_path: path -> its entries, in read_dir order
    workers,      \* threads of the rayon pool
    scope,        \* the tasks spawned in the rayon scope: directory -> [pc, i, len]
    entries,      \* the shared Vec<PathBuf> behind the Mutex, then the files handed to the analysis
    mutex,        \* the task holding the lock of `entries`, or NoHolder
    walkPc,       \* "idle" | "scope" | "returned" | "panicked"
    \* ---- analyze_directory (analyzer.rs:18-53)
    source,       \* the files of the corpus: path -> [readable, parse_error, program]
    keywords,     \* the requested keywords, in command-line order
    labels,       \* the requested label terms, in command-line order
    all_matches,  \* index into entries -> the (keyword matches, label matches) of that file
    keyword_matches, \* the flattened keyword matches not yet folded
    label_matches,   \* the flattened label matches not yet folded
    report,       \* the AnalysisReport: [keyword_results, label_results, total_files]
    arena,        \* Bump of each map_init instance -> the files whose trees it holds
    aggPc         \* "idle" | "map" | "keywords" | "labels" | "ensure" | "done"

rankVars == <<listing, min, max, page, collected, packages, rankPc>>
mainVars == <<cfg, mainPc, run, faults, crashes>>
fsVars   == <<topDirs, zips, dirs>>
extVars  == <<extPc, work, extracted, interrupted>>
dlVars   == <<dlPc, singleDist, tasks, results, dlRet, net, prevAllOk>>

walkVars == <<disk, workers, scope, entries, mutex, walkPc>>
aggVars  == <<source, keywords, labels, all_matches, keyword_matches, label_matches, report, arena,
              aggPc>>
scanVars == <<walkVars, aggVars>>

vars == <<rankVars, mainVars, fsVars, extVars, dlVars, scanVars>>

\* ------------------------------------------------------------------ bounds

\* The Bumps map_init makes in one analysis.
MaxArenas == 1
\* Largest rangeMax tried by the ranking fetch.
MaxRank == 17
\* Longest registry listing tried by the ranking fetch.
MaxListing == 33
\* The pages of the ranking told apart: page MaxPage stands for every
\* page from MaxPage on, all past the end of the longest listing.
MaxPage == 4
\* Files per archive.
ArchiveFiles == 2
\* Zip files present when a run with --skip-download starts.
MaxZips == 2
\* Runs on one target directory.
MaxRuns == 2
\* Entries of the registry's listing in a whole run.
NPackages == 7
\* Widest slice that is run more than once and with injected I/O errors.
SmallSlice == 1
\* Local I/O errors injected in one behaviour.
MaxFaults == 2
\* Process kills injected in one behaviour.
MaxCrashes == 1
\* Largest number of threads of the walker's pool.
MaxWorkers == 2
\* Largest number of files handed to the analysis.
MaxFiles == 2
\* Largest total count a keyword result is driven to.
MaxCount == 502

\* ------------------------------------------------------- program constants

PACKAGIST_PER_PAGE == 15
MAX_CONCURRENT_DOWNLOADS == 5

\* ---------------------------------------------------------------- helpers

Min2(a, b) == IF a <= b THEN a ELSE b

\* The registry's answer to popular.json?page=p: the p-th block of
\* PACKAGIST_PER_PAGE entries of the listing (empty past the end).
PageOf(l, p) ==
    LET lo == (p - 1) * PACKAGIST_PER_PAGE + 1
        hi == Min2(p * PACKAGIST_PER_PAGE, Len(l))
    IN  IF lo > hi THEN << >> ELSE SubSeq(l, lo, hi)

\* The test of downloader.rs:64.
InRange(c, lo, hi) == c >= lo /\ c < hi

\* The start value of `collected` (downloader.rs:43).
CollectedStart(lo) == 0

\* downloader.rs:63-72: the for loop over one page.  Returns the state after
\* the page: done = TRUE when the loop returned Ok(packages).
RECURSIVE ProcessPage(_, _, _, _, _)
ProcessPage(names, i, c, acc, rng) ==
    IF i > Len(names) THEN [done |-> FALSE, collected |-> c, packages |-> acc]
    ELSE LET acc2 == IF InRange(c, rng[1], rng[2]) THEN Append(acc, names[i]) ELSE acc
             c2   == c + 1
         IN  IF c2 >= rng[2]
             THEN [done |-> TRUE, collected |-> c2, packages |-> acc2]
             ELSE ProcessPage(names, i + 1, c2, acc2, rng)

\* ------------------------------------------------ get_top_packages actions

\* downloader.rs:41-43: entry of get_top_packages.
GetTopPackagesStart ==
    /\ dlPc = "listing"
    /\ rankPc = "idle"
    /\ packages' = << >>
    /\ page' = (min \div PACKAGIST_PER_PAGE) + 1
    /\ collected' = CollectedStart(min)
    /\ rankPc' = "loop"
    /\ UNCHANGED <<listing, min, max>>
    /\ UNCHANGED <<scanVars, mainVars, fsVars, extVars, dlVars>>

\* downloader.rs:47-55: the top of the loop: the request for the page is
\* sent and awaited.  The count of requests stops at MaxPage.
FetchPageSend ==
    /\ rankPc = "loop"
    /\ rankPc' = "await"
    /\ net' = [net EXCEPT !.listing = Min2(@ + 1, MaxPage)]
    /\ UNCHANGED <<listing, min, max, page, collected, packages>>
    /\ UNCHANGED <<scanVars, mainVars, fsVars, extVars, dlPc, singleDist, tasks, results, dlRet, prevAllOk>>

\* downloader.rs:57-74: the page arrives and is decoded; the for loop runs
\* over it and the function returns or goes on to the next page.  The
\* pages from MaxPage on are past the end of every listing and are not
\* told apart.
FetchPageOk ==
    /\ rankPc = "await"
    /\ LET r == ProcessPage(PageOf(listing, page), 1, collected, packages, <<min, max>>)
       IN  /\ collected' = r.collected
           /\ packages' = r.packages
           /\ IF r.done
              THEN rankPc' = "ok" /\ page' = page
              ELSE rankPc' = "loop" /\ page' = Min2(page + 1, MaxPage)
    /\ UNCHANGED <<listing, min, max, net>>
    /\ UNCHANGED <<scanVars, mainVars, fsVars, extVars, dlPc, singleDist, tasks, results, dlRet, prevAllOk>>

\* downloader.rs:52-61: the request or the JSON decoding fails: `?` returns Err.
FetchPageErr ==
    /\ rankPc = "await"
    /\ rankPc' = "err"
    /\ UNCHANGED <<listing, min, max, page, collected, packages, net>>
    /\ UNCHANGED <<scanVars, mainVars, fsVars, extVars, dlPc, singleDist, tasks, results, dlRet, prevAllOk>>

\* ------------------------------------------------------ strings and paths

\* str::to_lowercase on one token (downloader.rs:84).
LowerTok(t) ==
    CASE t = "V" -> "v"
      [] t = "P" -> "p"
      [] t = "Q" -> "q"
      [] OTHER   -> t

\* str::to_lowercase (downloader.rs:84).
ToLowercase(s) == [i \in DOMAIN s |-> LowerTok(s[i])]

\* str::split(sep) collected into a Vec (downloader.rs:89): the parts of s
\* between the occurrences of sep.
RECURSIVE SplitFrom(_, _, _, _)
SplitFrom(s, sep, i, cur) ==
    IF i > Len(s) THEN <<cur>>
    ELSE IF s[i] = sep THEN <<cur>> \o SplitFrom(s, sep, i + 1, << >>)
    ELSE SplitFrom(s, sep, i + 1, Append(cur, s[i]))

Split(s, sep) == SplitFrom(s, sep, 1, << >>)

\* str::replace('/', "-") (downloader.rs:132).
Replace(s, from, to) == [i \in DOMAIN s |-> IF s[i] = from THEN to ELSE s[i]]

\* The index of the last "." of a file name that separates a stem from an
\* extension (0 when there is none): a leading "." is part of the stem
\* (std::path::Path::file_stem).
LastDot(c) ==
    LET dots == {i \in 2..Len(c) : c[i] = "."}
    IN  IF dots = {} THEN 0 ELSE CHOOSE i \in dots : \A j \in dots : j <= i

\* Path::extension of a file name: the tokens after the last dot.
Extension(c) ==
    IF LastDot(c) = 0 THEN << >> ELSE SubSeq(c, LastDot(c) + 1, Len(c))

\* Path::with_extension on the last component (downloader.rs:175,
\* extractor.rs:15): the stem, a dot and the new extension.
WithExtension(c, ext) ==
    LET stem == IF LastDot(c) = 0 THEN c ELSE SubSeq(c, 1, LastDot(c) - 1)
    IN  stem \o <<".">> \o ext

\* downloader.rs:157 / extractor.rs:73: sources/<package name>, as the
\* components below sources/.
ExtractDir(nameLower) == Split(nameLower, "/")

\* downloader.rs:175 / extractor.rs:15: the temporary directory of an
\* extraction to `extractTo`.
TempDir(extractTo) ==
    SubSeq(extractTo, 1, Len(extractTo) - 1)
        \o <<WithExtension(extractTo[Len(extractTo)], <<"tmp">>)>>

\* downloader.rs:129-132: zipballs/<package name>/<name with - for />.zip,
\* as the components below zipballs/.
ZipballPath(nameLower) ==
    Split(nameLower, "/") \o <<Replace(nameLower, "/", "-") \o <<".", "zip">>>>

\* extractor.rs:66-71: the package name of a zip file is its parent
\* directory relative to zipballs/.
PackageOfZip(zipPath) == SubSeq(zipPath, 1, Len(zipPath) - 1)

\* ------------------------------------------------------------ file system

\* Whether another local I/O error may be injected: at most MaxFaults, and
\* only when the slice is no wider than SmallSlice.
MayFault == faults < MaxFaults /\ max - min <= SmallSlice

\* Whether the program may be started again: at most MaxRuns runs, and only
\* when the slice is no wider than SmallSlice.
MayRerun == run < MaxRuns /\ max - min <= SmallSlice

\* A map (a function with a finite domain) with key k set to v.
Put(f, k, v) == [x \in (DOMAIN f) \cup {k} |-> IF x = k THEN v ELSE f[x]]

\* A map without key k.
Del(f, k) == [x \in (DOMAIN f) \ {k} |-> f[x]]

\* The names of the files of an archive.
FileNames == <<"a", "b", "c", "d">>

\* A directory tree is a set of nodes [path, dir, data]: path is the
\* sequence of entry names below the tree's root, data the content of a
\* file (the package it was downloaded for), << >> for a directory.
DirNode(path) == [path |-> path, dir |-> TRUE, data |-> << >>]
FileNode(path, data) == [path |-> path, dir |-> FALSE, data |-> data]

\* fs::create_dir_all below the root of a tree (extractor.rs:25,28).
CreateDirAll(tree, path) ==
    tree \cup {DirNode(SubSeq(path, 1, k)) : k \in 1..Len(path)}

\* File::create + io::copy (extractor.rs:30-31): the file is created or
\* truncated and holds the entry's bytes.
WriteFile(tree, path, data) ==
    {n \in tree : n.path # path} \cup {FileNode(path, data)}

\* The name of the single top-level directory of a package's archive.
RootName(origin) == <<"root", "-">> \o Replace(origin, "/", "-")

\* zip::ZipArchive (extractor.rs:13,18-21): the entries of an archive, in
\* index order.  z = [origin, single]: the package the bytes were served
\* for, and whether all entries lie under one top-level directory.
ArchiveEntries(z, nfiles) ==
    IF z.single
    THEN <<[name |-> <<RootName(z.origin)>>, dir |-> TRUE]>>
         \o [i \in 1..nfiles |->
                [name |-> <<RootName(z.origin), <<FileNames[i]>>>>, dir |-> FALSE]]
    ELSE [i \in 1..nfiles |-> [name |-> <<<<FileNames[i]>>>>, dir |-> FALSE]]

\* extractor.rs:16 / downloader.rs:176: fs::create_dir_all(&temp_dir).
MkTemp(d, t) == IF t \in DOMAIN d THEN d ELSE Put(d, t, {})

\* extractor.rs:22-32 / downloader.rs:181-191: one entry of the archive is
\* written below the temporary directory (create_dir_all of the parent
\* creates the temporary directory again when it is gone).
WriteEntry(d, t, e, origin) ==
    LET tree == IF t \in DOMAIN d THEN d[t] ELSE {}
    IN  IF e.dir
        THEN Put(d, t, CreateDirAll(tree, e.name))
        ELSE Put(d, t, WriteFile(CreateDirAll(tree, SubSeq(e.name, 1, Len(e.name) - 1)),
                                 e.name, origin))

\* extractor.rs:35-38 / downloader.rs:195-198: the entries of the
\* temporary directory, as [name, dir].
TopEntries(tree) == {[name |-> n.path[1], dir |-> n.dir] : n \in {m \in tree : Len(m.path) = 1}}

\* The nodes below the top-level directory `sub`, re-rooted at it.
Below(tree, sub) ==
    {[path |-> SubSeq(n.path, 2, Len(n.path)), dir |-> n.dir, data |-> n.data] :
        n \in {m \in tree : Len(m.path) > 1 /\ m.path[1] = sub}}

\* rename(2) of directory src to dst: a no-op when they are the same, an
\* error when src is missing or dst is a directory that is not empty.
RenameDir(d, src, dst) ==
    IF src \notin DOMAIN d THEN [ok |-> FALSE, dirs |-> d]
    ELSE IF src = dst THEN [ok |-> TRUE, dirs |-> d]
    ELSE IF dst \in DOMAIN d /\ d[dst] # {} THEN [ok |-> FALSE, dirs |-> d]
    ELSE [ok |-> TRUE, dirs |-> Put(Del(d, src), dst, d[src])]

\* rename(2) of the directory t/sub to dst: an error when the source is
\* missing, when dst is t itself (an ancestor of the source, not empty) or
\* when dst is a directory that is not empty.
RenameSub(d, t, sub, dst) ==
    IF t \notin DOMAIN d THEN [ok |-> FALSE, dirs |-> d]
    ELSE IF [name |-> sub, dir |-> TRUE] \notin TopEntries(d[t]) THEN [ok |-> FALSE, dirs |-> d]
    ELSE IF dst = t THEN [ok |-> FALSE, dirs |-> d]
    ELSE IF dst \in DOMAIN d /\ d[dst] # {} THEN [ok |-> FALSE, dirs |-> d]
    ELSE [ok |-> TRUE,
          dirs |-> Put(Put(d, t, {n \in d[t] : n.path[1] # sub}), dst, Below(d[t], sub))]

\* fs::remove_dir (extractor.rs:43): only an empty directory is removed.
RemoveDir(d, t) ==
    IF t \in DOMAIN d /\ d[t] = {} THEN [ok |-> TRUE, dirs |-> Del(d, t)]
    ELSE [ok |-> FALSE, dirs |-> d]

\* extractor.rs:40 / downloader.rs:200: entries.len() == 1 && is_dir().
SingleSubdir(seen) == Cardinality(seen) = 1 /\ \A e \in seen : e.dir

\* extract_zip after the archive is opened (extractor.rs:15-48,
\* downloader.rs:175-210), one file-system call at a time.  Stage 1 creates
\* the temporary directory, stages 2..n+1 write the n entries, stage n+2
\* reads the temporary directory, stage n+3 renames, stage n+4 removes the
\* emptied wrapper.  The result names the next stage, 0 when extract_zip
\* has returned.
ExtStep(d, z, nfiles, final, stage, seen) ==
    LET es == ArchiveEntries(z, nfiles)
        n  == Len(es)
        t  == TempDir(final)
    IN  IF stage = 1
        THEN [ok |-> TRUE, dirs |-> MkTemp(d, t), seen |-> seen, stage |-> 2]
        ELSE IF stage <= n + 1
        THEN [ok |-> TRUE, dirs |-> WriteEntry(d, t, es[stage - 1], z.origin),
              seen |-> seen, stage |-> stage + 1]
        ELSE IF stage = n + 2
        THEN IF t \in DOMAIN d
             THEN [ok |-> TRUE, dirs |-> d, seen |-> TopEntries(d[t]), stage |-> n + 3]
             ELSE [ok |-> FALSE, dirs |-> d, seen |-> seen, stage |-> 0]
        ELSE IF stage = n + 3
        THEN IF SingleSubdir(seen)
             THEN LET r == RenameSub(d, t, (CHOOSE e \in seen : TRUE).name, final)
                  IN  [ok |-> r.ok, dirs |-> r.dirs, seen |-> seen,
                       stage |-> IF r.ok THEN n + 4 ELSE 0]
             ELSE LET r == RenameDir(d, t, final)
                  IN  [ok |-> r.ok, dirs |-> r.dirs, seen |-> seen, stage |-> 0]
        ELSE LET r == RemoveDir(d, t)
             IN  [ok |-> r.ok, dirs |-> r.dirs, seen |-> seen, stage |-> 0]

\* The last stage extract_zip can be in for an archive of n entries.
LastStage(z, nfiles) == Len(ArchiveEntries(z, nfiles)) + 4

\* extract_zip run from `stage` to its return without another task in
\* between; an I/O error strikes at stage failAt (0: none).  struck tells
\* whether it did.
RECURSIVE RunExtract(_, _, _, _, _, _, _)
RunExtract(d, z, nfiles, final, stage, seen, failAt) ==
    IF stage = failAt THEN [ok |-> FALSE, dirs |-> d, struck |-> TRUE]
    ELSE LET r == ExtStep(d, z, nfiles, final, stage, seen)
         IN  IF ~r.ok \/ r.stage = 0 THEN [ok |-> r.ok, dirs |-> r.dirs, struck |-> FALSE]
             ELSE RunExtract(r.dirs, z, nfiles, final, r.stage, r.seen, failAt)

\* The complete extracted contents of an archive at its final path: its
\* files, one level of nesting removed when it has a single top-level
\* directory.
ExpectedTree(z, nfiles) == {FileNode(<<<<FileNames[i]>>>>, z.origin) : i \in 1..nfiles}

\* ------------------------------------------ download_and_extract_packages

\* Nothing returned yet.
NoReturn == [tag |-> "none", value |-> << >>]

\* downloader.rs:233-249: the results collected from the stream.
NoResults == [Ok |-> 0, Err |-> 0]
Collect(rs, x) == [rs EXCEPT ![x] = @ + 1]
Collected(rs) == rs["Ok"] + rs["Err"]

\* No request sent yet in this run.
NoRequests == [listing |-> 0, meta |-> 0, archive |-> 0]

\* The registry's possible answers to p2/<vendor>/<package>.json
\* (downloader.rs:98-107): a failed request or undecodable body, or a
\* document mapping package names to version lists.
MetaResponses(n) ==
    { [kind |-> "err", packages |-> << >>],
      [kind |-> "doc", packages |-> << >>],
      [kind |-> "doc", packages |-> (n :> << >>)],
      [kind |-> "doc", packages |-> (n :> <<[dist |-> TRUE], [dist |-> FALSE]>>)],
      [kind |-> "doc", packages |-> (n :> <<[dist |-> FALSE], [dist |-> TRUE]>>)] }

\* The dist of the first version of the package.
HasDistFirst(resp, n) ==
    /\ resp.kind = "doc"
    /\ n \in DOMAIN resp.packages
    /\ Len(resp.packages[n]) > 0
    /\ resp.packages[n][1].dist

\* downloader.rs:98-126: whether the answer yields a dist of the last
\* version of the package.
HasDist(resp, n) ==
    /\ resp.kind = "doc"
    /\ n \in DOMAIN resp.packages
    /\ Len(resp.packages[n]) > 0
    /\ resp.packages[n][Len(resp.packages[n])].dist

\* downloader.rs:89-92: the name has exactly two parts around "/".
ValidName(nameLower) == Len(Split(nameLower, "/")) = 2

\* A zipball check that never finds the file.
ZipballExistsNever(z, zp) == FALSE

\* downloader.rs:135: zipball_path.exists().
ZipballExists(z, zp) == zp \in DOMAIN z

\* A directory check that never finds the directory.
ExtractDirExistsNever(d, final) == FALSE

\* downloader.rs:159: extract_dir.exists().
ExtractDirExists(d, final) == final \in DOMAIN d

\* The tasks buffer_unordered holds: started and not finished.
InFlight == {i \in DOMAIN tasks : tasks[i] \in {"meta", "download"}}

\* A stream that starts every future at once.
CanStartUnbounded == TRUE

\* downloader.rs:247: buffer_unordered(MAX_CONCURRENT_DOWNLOADS) takes the
\* next future from the stream only while it holds fewer than the cap.
CanStart == Cardinality(InFlight) < MAX_CONCURRENT_DOWNLOADS

\* The stages at which an I/O error can be injected (0: none).
FailStages == 0..(ArchiveFiles + 5)

\* downloader.rs:156-164: the extraction at the end of a package's
\* acquisition, which runs without suspension: skipped, or extract_zip with
\* an I/O error at stage failAt (0: none).
ExtractSection(z, d, nameLower, failAt) ==
    LET zp    == ZipballPath(nameLower)
        final == ExtractDir(nameLower)
    IN  IF ExtractDirExists(d, final) THEN [ok |-> TRUE, dirs |-> d, struck |-> FALSE]
        ELSE IF z[zp].state # "full" THEN [ok |-> FALSE, dirs |-> d, struck |-> FALSE]
        ELSE RunExtract(d, z[zp], ArchiveFiles, final, 1, {}, failAt)

\* downloader.rs:214-227: the two directories are created and the listing
\* is fetched.
DownloadStart ==
    /\ mainPc = "download"
    /\ dlPc = "idle"
    /\ topDirs' = topDirs \cup {"zipballs", "sources"}
    /\ dlPc' = "listing"
    /\ UNCHANGED <<scanVars, rankVars, mainVars, zips, dirs, extVars, singleDist, tasks, results,
                   dlRet, net, prevAllOk>>

\* downloader.rs:227 and main.rs:116-119: the listing's error is returned
\* by `?` from download_and_extract_packages and again from main.
ListingFailed ==
    /\ mainPc = "download"
    /\ dlPc = "listing"
    /\ rankPc = "err"
    /\ dlRet' = [tag |-> "Err", value |-> << >>]
    /\ dlPc' = "done"
    /\ mainPc' = "exit_err"
    /\ UNCHANGED <<scanVars, rankVars, cfg, run, faults, crashes, fsVars, extVars, singleDist, tasks,
                   results, net, prevAllOk>>

\* downloader.rs:229-247: the stream over the packages is set up.
StreamStart ==
    /\ mainPc = "download"
    /\ dlPc = "listing"
    /\ rankPc = "ok"
    /\ tasks' = [i \in 1..Len(packages) |-> "pending"]
    /\ results' = NoResults
    /\ dlPc' = "stream"
    /\ UNCHANGED <<scanVars, rankVars, mainVars, fsVars, extVars, singleDist, dlRet, net, prevAllOk>>

\* downloader.rs:84-102: buffer_unordered takes the next package of the
\* stream and runs its future to the first suspension: the name is checked
\* and the metadata request is sent.
TaskStart(i) ==
    /\ mainPc = "download"
    /\ dlPc = "stream"
    /\ tasks[i] = "pending"
    /\ \A j \in 1..(i - 1) : tasks[j] # "pending"
    /\ CanStart
    /\ IF ValidName(ToLowercase(packages[i]))
       THEN /\ tasks' = [tasks EXCEPT ![i] = "meta"]
            /\ net' = [net EXCEPT !.meta = @ + 1]
            /\ UNCHANGED results
       ELSE /\ tasks' = [tasks EXCEPT ![i] = "err"]
            /\ results' = Collect(results, "Err")
            /\ UNCHANGED net
    /\ UNCHANGED <<scanVars, rankVars, mainVars, fsVars, extVars, dlPc, singleDist, dlRet, prevAllOk>>

\* downloader.rs:104-164: the metadata answer arrives.  Without a dist the
\* package fails; with the archive on disk the download is skipped and the
\* extraction section runs; else the archive is requested.
TaskMeta(i, resp, failAt) ==
    /\ mainPc = "download"
    /\ dlPc = "stream"
    /\ tasks[i] = "meta"
    /\ failAt > 0 => (MayFault /\ HasDist(resp, ToLowercase(packages[i])))
    /\ LET n == ToLowercase(packages[i])
       IN  IF ~HasDist(resp, n)
           THEN /\ tasks' = [tasks EXCEPT ![i] = "err"]
                /\ results' = Collect(results, "Err")
                /\ UNCHANGED <<net, dirs, faults>>
           ELSE IF ZipballExists(zips, ZipballPath(n))
           THEN /\ LET r == ExtractSection(zips, dirs, n, failAt)
                   IN  /\ failAt > 0 => r.struck
                       /\ dirs' = r.dirs
                       /\ tasks' = [tasks EXCEPT ![i] = IF r.ok THEN "ok" ELSE "err"]
                       /\ results' = Collect(results, IF r.ok THEN "Ok" ELSE "Err")
                       /\ faults' = IF r.struck THEN faults + 1 ELSE faults
                /\ UNCHANGED net
           ELSE /\ tasks' = [tasks EXCEPT ![i] = "download"]
                /\ net' = [net EXCEPT !.archive = @ + 1]
                /\ UNCHANGED <<results, dirs, faults>>
    /\ UNCHANGED <<scanVars, rankVars, cfg, mainPc, run, crashes, topDirs, zips, extVars, dlPc,
                   singleDist, dlRet, prevAllOk>>

\* downloader.rs:140-149: the archive request or the body fails.
TaskDownloadErr(i) ==
    /\ mainPc = "download"
    /\ dlPc = "stream"
    /\ tasks[i] = "download"
    /\ tasks' = [tasks EXCEPT ![i] = "err"]
    /\ results' = Collect(results, "Err")
    /\ UNCHANGED <<scanVars, rankVars, mainVars, fsVars, extVars, dlPc, singleDist, dlRet, net, prevAllOk>>

\* downloader.rs:151: fs::write creates the file and writes the bytes; an
\* I/O error after k of them leaves the file cut short.
WriteZipball(z, zp, bytes, complete) ==
    Put(z, zp, [state |-> IF complete THEN "full" ELSE "partial",
                origin |-> bytes.origin, single |-> bytes.single])

\* downloader.rs:146-164: the archive bytes arrive, are written to the
\* zipball path, and the extraction section runs.
TaskDownloadOk(i, failAt) ==
    /\ mainPc = "download"
    /\ dlPc = "stream"
    /\ tasks[i] = "download"
    /\ failAt > 0 => MayFault
    /\ LET n  == ToLowercase(packages[i])
           z2 == WriteZipball(zips, ZipballPath(n), [origin |-> n, single |-> singleDist], TRUE)
       IN  /\ zips' = z2
           /\ LET r == ExtractSection(z2, dirs, n, failAt)
              IN  /\ failAt > 0 => r.struck
                  /\ dirs' = r.dirs
                  /\ tasks' = [tasks EXCEPT ![i] = IF r.ok THEN "ok" ELSE "err"]
                  /\ results' = Collect(results, IF r.ok THEN "Ok" ELSE "Err")
                  /\ faults' = IF r.struck THEN faults + 1 ELSE faults
    /\ UNCHANGED <<scanVars, rankVars, cfg, mainPc, run, crashes, topDirs, extVars, dlPc, singleDist,
                   dlRet, net, prevAllOk>>

\* downloader.rs:151: fs::write fails part-way: the zipball is left cut
\* short and the package fails.
TaskWriteFault(i) ==
    /\ mainPc = "download"
    /\ dlPc = "stream"
    /\ tasks[i] = "download"
    /\ MayFault
    /\ faults' = faults + 1
    /\ zips' = WriteZipball(zips, ZipballPath(ToLowercase(packages[i])),
                            [origin |-> ToLowercase(packages[i]), single |-> singleDist], FALSE)
    /\ tasks' = [tasks EXCEPT ![i] = "err"]
    /\ results' = Collect(results, "Err")
    /\ UNCHANGED <<scanVars, rankVars, cfg, mainPc, run, crashes, topDirs, dirs, extVars, dlPc,
                   singleDist, dlRet, net, prevAllOk>>

\* How many of the collected results are `x` (downloader.rs:251-256).
CountOf(rs, x) == rs[x]

\* downloader.rs:258: the value returned after the tally.
Returned(successful, failed) == [tag |-> "Ok", value |-> <<successful>>]

\* downloader.rs:248-258 and main.rs:116-139: every future has completed;
\* the results are tallied, the function returns and main goes on.
DownloadReturn ==
    /\ mainPc = "download"
    /\ dlPc = "stream"
    /\ Collected(results) = Len(packages)
    /\ dlRet' = Returned(CountOf(results, "Ok"), CountOf(results, "Err"))
    /\ dlPc' = "done"
    /\ mainPc' = "extract"
    /\ UNCHANGED <<scanVars, rankVars, cfg, run, faults, crashes, fsVars, extVars, singleDist, tasks,
                   results, net, prevAllOk>>

\* The acquisition of this run returned Ok and every package of the slice
\* ended Ok.
AllOk ==
    /\ dlRet.tag = "Ok"
    /\ Len(packages) > 0
    /\ \A i \in DOMAIN tasks : tasks[i] = "ok"

\* ------------------------------------------------------- extract_packages

\* The state of a par_iter item before its closure has run.
NewItem == [stage |-> -1, seen |-> {}, res |-> "none"]

\* extractor.rs:52-61: sources/ is created and the zip files below
\* zipballs/ are collected (collect_zip_files, extractor.rs:115-132).
ExtractPackagesStart ==
    /\ mainPc = "extract"
    /\ extPc = "idle"
    /\ topDirs' = topDirs \cup {"sources"}
    /\ work' = [zp \in DOMAIN zips |-> NewItem]
    /\ extPc' = "running"
    /\ UNCHANGED <<scanVars, dlVars, rankVars, mainVars, zips, dirs, extracted, interrupted>>

\* extractor.rs:66-78 and 12-13: the closure starts on one zip file: the
\* package is skipped when its directory exists, else the archive is opened
\* (a file cut short has no central directory and cannot be opened).
ExtractBegin(zp) ==
    /\ mainPc = "extract"
    /\ extPc = "running"
    /\ work[zp].res = "none"
    /\ work[zp].stage = -1
    /\ LET final == PackageOfZip(zp)
       IN  work' = [work EXCEPT ![zp] =
                IF final \in DOMAIN dirs THEN [@ EXCEPT !.res = "ok"]
                ELSE IF zips[zp].state # "full" THEN [@ EXCEPT !.res = "err"]
                ELSE [@ EXCEPT !.stage = 1]]
    /\ UNCHANGED <<scanVars, dlVars, rankVars, mainVars, fsVars, extPc, extracted, interrupted>>

\* extractor.rs:15-48: the next file-system call of one extract_zip.
ExtractZipStep(zp) ==
    /\ mainPc = "extract"
    /\ extPc = "running"
    /\ work[zp].res = "none"
    /\ work[zp].stage >= 1
    /\ LET r == ExtStep(dirs, zips[zp], ArchiveFiles, PackageOfZip(zp),
                        work[zp].stage, work[zp].seen)
       IN  /\ dirs' = r.dirs
           /\ work' = [work EXCEPT ![zp] =
                    IF ~r.ok THEN [@ EXCEPT !.res = "err"]
                    ELSE IF r.stage = 0 THEN [@ EXCEPT !.res = "ok"]
                    ELSE [@ EXCEPT !.stage = r.stage, !.seen = r.seen]]
    /\ UNCHANGED <<scanVars, dlVars, rankVars, mainVars, topDirs, zips, extPc, extracted, interrupted>>

\* extractor.rs:16-45: a file-system call of extract_zip fails (`?`): the
\* closure returns Err and leaves the directories as they are.
ExtractZipFault(zp) ==
    /\ mainPc = "extract"
    /\ extPc = "running"
    /\ MayFault
    /\ work[zp].res = "none"
    /\ work[zp].stage >= 1
    /\ work' = [work EXCEPT ![zp].res = "err"]
    /\ faults' = faults + 1
    /\ UNCHANGED <<scanVars, dlVars, rankVars, cfg, mainPc, run, crashes, fsVars, extPc, extracted, interrupted>>

\* extractor.rs:90-112: every item has returned; the successes are counted
\* and returned, and main goes on to the analysis (main.rs:141-152).
ExtractPackagesEnd ==
    /\ mainPc = "extract"
    /\ extPc = "running"
    /\ \A zp \in DOMAIN work : work[zp].res # "none"
    /\ extracted' = Cardinality({zp \in DOMAIN work : work[zp].res = "ok"})
    /\ extPc' = "done"
    /\ mainPc' = "analyze"
    /\ UNCHANGED <<scanVars, dlVars, rankVars, cfg, run, faults, crashes, fsVars, work, interrupted>>

\* The stages of extract_zip at which every entry has been written to the
\* temporary directory and the rename has not been made.
Populated(zp) ==
    /\ work[zp].res = "none"
    /\ work[zp].stage \in {Len(ArchiveEntries(zips[zp], ArchiveFiles)) + 2,
                           Len(ArchiveEntries(zips[zp], ArchiveFiles)) + 3}

\* The process is killed during extract_packages: the file system stays as
\* it is.
CrashInExtract ==
    /\ mainPc = "extract"
    /\ extPc = "running"
    /\ crashes < MaxCrashes
    /\ crashes' = crashes + 1
    /\ mainPc' = "killed"
    /\ interrupted' = interrupted \cup {PackageOfZip(zp) : zp \in {x \in DOMAIN work : Populated(x)}}
    /\ UNCHANGED <<scanVars, dlVars, rankVars, cfg, run, faults, fsVars, extPc, work, extracted>>

\* ------------------------------------------------------------------ main

\* A start that tests the terms and not the index range.
MainStartTermsOnly ==
    /\ mainPc = "start"
    /\ mainPc' = IF ~cfg.hasTerms THEN "exit_err"
                 ELSE IF cfg.skip THEN "extract"
                 ELSE "download"
    /\ UNCHANGED <<scanVars, dlVars, rankVars, cfg, run, faults, crashes, fsVars, extVars>>

\* main.rs:95-139: the command line is validated; the run then downloads,
\* or goes straight to the extraction with --skip-download.
MainStart ==
    /\ mainPc = "start"
    /\ mainPc' = IF ~cfg.hasTerms \/ min >= max THEN "exit_err"
                 ELSE IF cfg.skip THEN "extract"
                 ELSE "download"
    /\ UNCHANGED <<scanVars, dlVars, rankVars, cfg, run, faults, crashes, fsVars, extVars>>

\* main.rs:152-179: the run fails when sources/ does not exist; else
\* analyze_directory builds the report and the tables are displayed.
MainAnalyze ==
    /\ mainPc = "analyze"
    /\ mainPc' = IF "sources" \in topDirs THEN "report" ELSE "exit_err"
    /\ UNCHANGED <<scanVars, dlVars, rankVars, cfg, run, faults, crashes, fsVars, extVars>>

\* The program is started again on the same target directory with the same
\* command line; only the file system carries over.
NewRun ==
    /\ mainPc \in {"report", "exit_err", "killed"}
    /\ MayRerun
    /\ run' = run + 1
    /\ mainPc' = "start"
    /\ page' = 0
    /\ collected' = 0
    /\ packages' = << >>
    /\ rankPc' = "idle"
    /\ extPc' = "idle"
    /\ work' = << >>
    /\ extracted' = 0
    /\ dlPc' = "idle"
    /\ tasks' = << >>
    /\ results' = NoResults
    /\ dlRet' = NoReturn
    /\ net' = NoRequests
    /\ prevAllOk' = AllOk
    /\ UNCHANGED <<scanVars, listing, min, max, cfg, faults, crashes, fsVars, interrupted, singleDist>>

\* ------------------------------------------------- walk_files (files.rs)

\* files.rs:16.
PHP_EXTENSION == {<<"php">>, <<"php7">>, <<"php8">>}

\* The elements of a sequence.
Range(s) == {s[i] : i \in DOMAIN s}

\* files.rs:77-83: the extension of the path's file name is one of
\* PHP_EXTENSION, compared as it is written.
HasPhpExtension(path) == Extension(path[Len(path)]) \in PHP_EXTENSION

NoHolder == "none"

\* A task spawned in the scope and not yet picked up by a thread.
NewTask == [pc |-> "spawned", i |-> 0, len |-> 0]

\* The tasks that occupy a thread of the pool.
Running == {d \in DOMAIN scope : scope[d].pc \in {"iter", "lock", "push"}}

\* The one change of the lock-free variant of the walker: the lock is
\* granted whoever holds it.
CanLockAlways(d) == TRUE

\* files.rs:71: Mutex::lock returns once no other task holds the lock.
CanLock(d) == mutex = NoHolder

\* files.rs:51-55: the collection is created and read_dir(base_path) is
\* spawned in a rayon scope.
WalkFiles ==
    /\ walkPc = "idle"
    /\ walkPc' = "scope"
    /\ entries' = << >>
    /\ mutex' = NoHolder
    /\ scope' = (<< >> :> NewTask)
    /\ UNCHANGED <<disk, workers, aggVars>>
    /\ UNCHANGED <<rankVars, mainVars, fsVars, extVars, dlVars>>

\* files.rs:63: a thread picks the task up and opens its directory; the
\* unwrap panics when the directory cannot be read.
ReadDirBegin(d) ==
    /\ walkPc # "idle"
    /\ scope[d].pc = "spawned"
    /\ Cardinality(Running) < workers
    /\ scope' = [scope EXCEPT ![d] =
                    IF d \in DOMAIN disk THEN [pc |-> "iter", i |-> 1, len |-> 0]
                    ELSE [pc |-> "panicked", i |-> 0, len |-> 0]]
    /\ UNCHANGED <<disk, workers, entries, mutex, walkPc, aggVars>>
    /\ UNCHANGED <<rankVars, mainVars, fsVars, extVars, dlVars>>

\* files.rs:63-70: one iteration of the loop over the directory's entries,
\* up to the request of the lock; after the last entry the task ends.
ReadDirEntry(d) ==
    /\ walkPc # "idle"
    /\ scope[d].pc = "iter"
    /\ LET i == scope[d].i
       IN  IF i > Len(disk[d]) THEN scope' = [scope EXCEPT ![d].pc = "done"]
           ELSE LET e == disk[d][i]
                    path == Append(d, e.name)
                IN  IF e.kind = "dir"
                    THEN scope' = Put([scope EXCEPT ![d].i = i + 1], path, NewTask)
                    ELSE IF e.kind = "file" /\ HasPhpExtension(path)
                    THEN scope' = [scope EXCEPT ![d].pc = "lock"]
                    ELSE scope' = [scope EXCEPT ![d].i = i + 1]
    /\ UNCHANGED <<disk, workers, entries, mutex, walkPc, aggVars>>
    /\ UNCHANGED <<rankVars, mainVars, fsVars, extVars, dlVars>>

\* files.rs:71-72: the lock is taken and Vec::push reads the length of the
\* vector.
ReadDirLock(d) ==
    /\ walkPc # "idle"
    /\ scope[d].pc = "lock"
    /\ CanLock(d)
    /\ mutex' = d
    /\ scope' = [scope EXCEPT ![d].pc = "push", ![d].len = Len(entries)]
    /\ UNCHANGED <<disk, workers, entries, walkPc, aggVars>>
    /\ UNCHANGED <<rankVars, mainVars, fsVars, extVars, dlVars>>

\* files.rs:72-73: Vec::push writes the path at the length it read and
\* sets the new length; the guard is dropped at the end of the block.
ReadDirPush(d) ==
    /\ walkPc # "idle"
    /\ scope[d].pc = "push"
    /\ entries' = Append(SubSeq(entries, 1, scope[d].len),
                         Append(d, disk[d][scope[d].i].name))
    /\ mutex' = NoHolder
    /\ scope' = [scope EXCEPT ![d].pc = "iter", ![d].i = @ + 1]
    /\ UNCHANGED <<disk, workers, walkPc, aggVars>>
    /\ UNCHANGED <<rankVars, mainVars, fsVars, extVars, dlVars>>

\* A scope that waits for the task it was given and not for the tasks that
\* task spawned.
ScopeCompleteFirstTask == scope[<< >>].pc \in {"done", "panicked"}

\* files.rs:55: rayon::scope returns once every task spawned in it,
\* directly or by another task, has ended.
ScopeComplete == \A d \in DOMAIN scope : scope[d].pc \in {"done", "panicked"}

\* files.rs:55-58: rayon::scope returns when every task spawned in it has
\* ended, and resumes the panic of a task that panicked; else the vector
\* is taken out of the Arc and the Mutex.
WalkFilesReturn ==
    /\ walkPc = "scope"
    /\ ScopeComplete
    /\ walkPc' = IF \E d \in DOMAIN scope : scope[d].pc = "panicked"
                 THEN "panicked" ELSE "returned"
    /\ UNCHANGED <<disk, workers, scope, entries, mutex, aggVars>>
    /\ UNCHANGED <<rankVars, mainVars, fsVars, extVars, dlVars>>

\* ---------------------------------------------- Analyzer (analyzer.rs)

\* u8::to_ascii_lowercase on one character.
ToAsciiLowercase(c) ==
    CASE c = "L" -> "l"
      [] c = "E" -> "e"
      [] c = "T" -> "t"
      [] c = "U" -> "u"
      [] c = "S" -> "s"
      [] c = "I" -> "i"
      [] c = "N" -> "n"
      [] c = "G" -> "g"
      [] c = "F" -> "f"
      [] c = "O" -> "o"
      [] OTHER   -> c

\* A comparison that respects case.
EqExact(a, b) == a = b

\* str::eq_ignore_ascii_case: the same length and, character by character,
\* the same ASCII lower-case form.
EqIgnoreAsciiCase(a, b) ==
    /\ Len(a) = Len(b)
    /\ \A i \in DOMAIN a : ToAsciiLowercase(a[i]) = ToAsciiLowercase(b[i])

\* str::starts_with.
StartsWith(s, prefix) ==
    Len(s) >= Len(prefix) /\ SubSeq(s, 1, Len(prefix)) = prefix

\* A classification that looks for the vendor's name in any segment.
FromPackageAnySegment(package) ==
    IF "symfony" \in Range(package) THEN "Symfony"
    ELSE IF "laravel" \in Range(package) THEN "Laravel"
    ELSE IF "doctrine" \in Range(package) THEN "Doctrine"
    ELSE IF "phpunit" \in Range(package) THEN "Phpunit"
    ELSE IF "twig" \in Range(package) THEN "Twig"
    ELSE IF "illuminate" \in Range(package) THEN "Illuminate"
    ELSE "Other"

\* results.rs:33-49: Vendor::from_package on "<vendor>/<package>".
FromPackage(package) ==
    IF StartsWith(package, <<"symfony", "/">>) THEN "Symfony"
    ELSE IF StartsWith(package, <<"laravel", "/">>) THEN "Laravel"
    ELSE IF StartsWith(package, <<"doctrine", "/">>) THEN "Doctrine"
    ELSE IF StartsWith(package, <<"phpunit", "/">>) THEN "Phpunit"
    ELSE IF StartsWith(package, <<"twig", "/">>) THEN "Twig"
    ELSE IF StartsWith(package, <<"illuminate", "/">>) THEN "Illuminate"
    ELSE "Other"

\* A test that takes every vendor for a well-known one.
IsWellKnownAny(vendor) == TRUE

\* results.rs:29-31.
IsWellKnown(vendor) == vendor # "Other"

\* files.rs:26-36: the vendor of a file, from the first two components of
\* its path below the sources directory.
VendorOf(path) ==
    IF Len(path) < 2 THEN "Other"
    ELSE FromPackage(path[1] \o <<"/">> \o path[2])

\* analyzer.rs:144: the part of a name after its last backslash.
LastSegment(name) ==
    LET parts == Split(name, "\\") IN parts[Len(parts)]

KeywordMatch(keyword, vendor, is_hard) ==
    [keyword |-> keyword, vendor |-> vendor, is_hard |-> is_hard]

LabelMatch(label, vendor) == [label |-> label, vendor |-> vendor]

\* A loop over the requested keywords that pushes a match for every
\* keyword equal to the name ignoring case.
MatchKeywordAll(kws, name, vendor, is_hard) ==
    LET hits == SelectSeq(kws, LAMBDA k : EqIgnoreAsciiCase(name, k))
    IN  [i \in 1..Len(hits) |-> KeywordMatch(hits[i], vendor, is_hard)]

\* analyzer.rs:146-156 (and 171-181, 191-201, 213-223, 247-257, 275-285):
\* the loop over the requested keywords pushes one match, for the first
\* keyword equal to the name ignoring case, and breaks.
MatchKeyword(kws, name, vendor, is_hard) ==
    LET hits == {i \in DOMAIN kws : EqIgnoreAsciiCase(name, kws[i])}
    IN  IF hits = {} THEN << >>
        ELSE <<KeywordMatch(kws[CHOOSE i \in hits : \A j \in hits : i <= j],
                            vendor, is_hard)>>

\* analyzer.rs:109-116 (and 124-131): the loop over the requested label
\* terms pushes one match per term equal to the name ignoring case; the
\* match carries the name as it is written in the source.
MatchLabels(lbls, name, vendor) ==
    LET hits == SelectSeq(lbls, LAMBDA l : EqIgnoreAsciiCase(name, l))
    IN  [i \in 1..Len(hits) |-> LabelMatch(name, vendor)]

\* analyzer.rs:107-287: the matches one visited node adds.  `known` is:
\* for a call or a partial application, that the callee is an identifier;
\* for a qualified identifier, that the resolved names hold its position.
\* `name` is the resolved name where the code looks it up, else the text.
WalkIn(node, kws, lbls, vendor) ==
    CASE node.kind \in {"FunctionCall", "FunctionPartialApplication"} ->
            [kw  |-> IF node.known
                     THEN MatchKeyword(kws, LastSegment(node.name), vendor, FALSE)
                     ELSE << >>,
             lbl |-> << >>]
      [] node.kind = "Function" ->
            [kw |-> MatchKeyword(kws, node.name, vendor, FALSE), lbl |-> << >>]
      [] node.kind = "LocalIdentifier" ->
            [kw |-> MatchKeyword(kws, node.name, vendor, TRUE), lbl |-> << >>]
      [] node.kind = "QualifiedIdentifier" ->
            [kw  |-> IF node.known
                     THEN MatchKeyword(kws, LastSegment(node.name), vendor, TRUE)
                     ELSE << >>,
             lbl |-> << >>]
      [] node.kind = "FullyQualifiedIdentifier" ->
            [kw |-> MatchKeyword(kws, LastSegment(node.name), vendor, TRUE),
             lbl |-> << >>]
      [] node.kind \in {"Label", "NamedArgument"} ->
            [kw |-> << >>, lbl |-> MatchLabels(lbls, node.name, vendor)]
      [] OTHER -> [kw |-> << >>, lbl |-> << >>]

\* analyzer.rs:83: the walk of the program, node by node.
RECURSIVE WalkProgram(_, _, _, _, _)
WalkProgram(program, i, kws, lbls, vendor) ==
    IF i > Len(program) THEN [kw |-> << >>, lbl |-> << >>]
    ELSE LET here == WalkIn(program[i], kws, lbls, vendor)
             rest == WalkProgram(program, i + 1, kws, lbls, vendor)
         IN  [kw |-> here.kw \o rest.kw, lbl |-> here.lbl \o rest.lbl]

\* A run that walks the program of a file whether it can be read or not.
AnalyzerRunAnyFile(file, path, kws, lbls) ==
    WalkProgram(file.program, 1, kws, lbls, VendorOf(path))

\* analyzer.rs:64-86: Analyzer::run on one file; a file that cannot be read
\* gives no match.  The error parse_file returns is dropped (`let (program,
\* _)`, analyzer.rs:75) and the program returned with it is walked.
AnalyzerRun(file, path, kws, lbls) ==
    IF ~file.readable THEN [kw |-> << >>, lbl |-> << >>]
    ELSE WalkProgram(file.program, 1, kws, lbls, VendorOf(path))

\* ------------------------------------------- AnalysisReport (results.rs)

\* results.rs:111-117.
NewKeywordResult == [soft_count |-> 0, hard_count |-> 0, well_known_vendors |-> {}]

\* results.rs:145-150.
NewLabelResult == [count |-> 0, well_known_vendors |-> {}]

\* results.rs:168-174.
NewReport(total_files) ==
    [keyword_results |-> << >>, label_results |-> << >>, total_files |-> total_files]

\* A vendor set that keeps only the vendor of the last match.
InsertLast(set, vendor) == {vendor}

\* results.rs:139, 155: HashSet::insert.
Insert(set, vendor) == set \cup {vendor}

\* results.rs:131-141.
KeywordAddMatch(r, m) ==
    [soft_count |-> IF m.is_hard THEN r.soft_count ELSE r.soft_count + 1,
     hard_count |-> IF m.is_hard THEN r.hard_count + 1 ELSE r.hard_count,
     well_known_vendors |-> IF IsWellKnown(m.vendor)
                            THEN Insert(r.well_known_vendors, m.vendor)
                            ELSE r.well_known_vendors]

\* results.rs:152-157.
LabelAddMatch(r, m) ==
    [count |-> r.count + 1,
     well_known_vendors |-> IF IsWellKnown(m.vendor)
                            THEN Insert(r.well_known_vendors, m.vendor)
                            ELSE r.well_known_vendors]

\* A calculate whose first range ends one early (1..25 written 1..24).
CalculateShortLow(total) ==
    CASE total = 0 -> "None"
      [] total \in 1..24 -> "Low"
      [] total \in 25..100 -> "Medium"
      [] total \in 101..500 -> "High"
      [] OTHER -> "Critical"

\* results.rs:86-94: ImpactLevel::calculate.
Calculate(total) ==
    CASE total = 0 -> "None"
      [] total \in 1..25 -> "Low"
      [] total \in 26..100 -> "Medium"
      [] total \in 101..500 -> "High"
      [] OTHER -> "Critical"

\* results.rs:66-73: the derived order of ImpactLevel is the order of its
\* variants.
ImpactOrd(level) ==
    CASE level = "None" -> 0
      [] level = "Low" -> 1
      [] level = "Medium" -> 2
      [] level = "High" -> 3
      [] level = "Critical" -> 4

\* results.rs:119-121.
TotalCount(r) == r.soft_count + r.hard_count

\* results.rs:123-125.
SoftImpact(r) == Calculate(r.soft_count)

\* A hard impact computed from the hard count alone.
HardImpactOfHardCount(r) == Calculate(r.hard_count)

\* results.rs:127-129.
HardImpact(r) == Calculate(TotalCount(r))

\* HashMap::entry(k).or_insert_with(new): the map with k present.
OrInsertWith(map, k, new) == IF k \in DOMAIN map THEN map ELSE Put(map, k, new)

\* An ensure_all_keywords that inserts nothing.
EnsureNoKeyword(results_map, kws) == results_map

\* results.rs:194-200: ensure_all_keywords.
RECURSIVE EnsureAllKeywords(_, _)
EnsureAllKeywords(results_map, kws) ==
    IF kws = << >> THEN results_map
    ELSE EnsureAllKeywords(OrInsertWith(results_map, Head(kws), NewKeywordResult), Tail(kws))

\* The concatenation of the sequences seqs[1], seqs[2], ... (analyzer.rs:40-43).
RECURSIVE Flatten(_, _)
Flatten(seqs, i) ==
    IF i > Len(seqs) THEN << >> ELSE seqs[i] \o Flatten(seqs, i + 1)

\* ---------------------------------- analyze_directory (analyzer.rs:18-53)

\* analyzer.rs:25-30: the files walk_files returned are handed to the
\* parallel map; map_init makes a Bump for each stretch of files rayon runs
\* in sequence.
AnalyzeDirectory ==
    /\ aggPc = "idle"
    /\ walkPc = "returned"
    /\ aggPc' = "map"
    /\ all_matches' = << >>
    /\ arena' = [w \in 1..MaxArenas |-> {}]
    /\ UNCHANGED <<walkVars, source, keywords, labels, keyword_matches, label_matches, report>>
    /\ UNCHANGED <<rankVars, mainVars, fsVars, extVars, dlVars>>

\* analyzer.rs:30-31, 75-76: Analyzer::run is handed the Bump as it is;
\* parse_file and NameResolver allocate the trees of a file that was read
\* in it, next to what it holds already.
ArenaAfter(held, file, i) == IF file.readable THEN held \cup {i} ELSE held

\* analyzer.rs:30-32: one file is analysed with the Bump of its stretch;
\* the files are taken in any order, each result goes to the position of
\* its file.  The Bumps are numbered in the order of their first use.
AnalyzeFile(w, i) ==
    /\ aggPc = "map"
    /\ i \in DOMAIN entries
    /\ i \notin DOMAIN all_matches
    /\ \A v \in 1..(w - 1) : arena[v] # {}
    /\ all_matches' = Put(all_matches, i,
                          AnalyzerRun(source[entries[i]], entries[i], keywords, labels))
    /\ arena' = [arena EXCEPT ![w] = ArenaAfter(@, source[entries[i]], i)]
    /\ UNCHANGED <<walkVars, source, keywords, labels, keyword_matches, label_matches,
                   report, aggPc>>
    /\ UNCHANGED <<rankVars, mainVars, fsVars, extVars, dlVars>>

\* analyzer.rs:33-43: the results are collected (the Bumps of the map are
\* dropped with it), the report is created and
\* the per-file lists are concatenated in the order of the files.
CollectMatches ==
    /\ aggPc = "map"
    /\ DOMAIN all_matches = DOMAIN entries
    /\ report' = NewReport(Len(all_matches))
    /\ keyword_matches' = Flatten([i \in DOMAIN all_matches |-> all_matches[i].kw], 1)
    /\ label_matches' = Flatten([i \in DOMAIN all_matches |-> all_matches[i].lbl], 1)
    /\ arena' = << >>
    /\ aggPc' = "keywords"
    /\ UNCHANGED <<walkVars, source, keywords, labels, all_matches>>
    /\ UNCHANGED <<rankVars, mainVars, fsVars, extVars, dlVars>>

\* results.rs:176-183: one iteration of add_keyword_matches, or its end.
AddKeywordMatch ==
    /\ aggPc = "keywords"
    /\ IF keyword_matches = << >>
       THEN /\ aggPc' = "labels"
            /\ UNCHANGED <<report, keyword_matches>>
       ELSE LET m == Head(keyword_matches)
                present == OrInsertWith(report.keyword_results, m.keyword, NewKeywordResult)
            IN  /\ report' = [report EXCEPT !.keyword_results =
                                [present EXCEPT ![m.keyword] = KeywordAddMatch(@, m)]]
                /\ keyword_matches' = Tail(keyword_matches)
                /\ UNCHANGED aggPc
    /\ UNCHANGED <<walkVars, arena, source, keywords, labels, all_matches, label_matches>>
    /\ UNCHANGED <<rankVars, mainVars, fsVars, extVars, dlVars>>

\* results.rs:185-192: one iteration of add_label_matches, or its end.
AddLabelMatch ==
    /\ aggPc = "labels"
    /\ IF label_matches = << >>
       THEN /\ aggPc' = "ensure"
            /\ UNCHANGED <<report, label_matches>>
       ELSE LET m == Head(label_matches)
                present == OrInsertWith(report.label_results, m.label, NewLabelResult)
            IN  /\ report' = [report EXCEPT !.label_results =
                                [present EXCEPT ![m.label] = LabelAddMatch(@, m)]]
                /\ label_matches' = Tail(label_matches)
                /\ UNCHANGED aggPc
    /\ UNCHANGED <<walkVars, arena, source, keywords, labels, all_matches, keyword_matches>>
    /\ UNCHANGED <<rankVars, mainVars, fsVars, extVars, dlVars>>

\* analyzer.rs:48-52: ensure_all_keywords, then the report is returned.
EnsureKeywords ==
    /\ aggPc = "ensure"
    /\ report' = [report EXCEPT !.keyword_results = EnsureAllKeywords(@, keywords)]
    /\ aggPc' = "done"
    /\ UNCHANGED <<walkVars, arena, source, keywords, labels, all_matches, keyword_matches,
                   label_matches>>
    /\ UNCHANGED <<rankVars, mainVars, fsVars, extVars, dlVars>>

\* The walker has not started and has nothing to walk.
WalkUnused ==
    /\ disk = << >>
    /\ workers = 1
    /\ scope = << >>
    /\ entries = << >>
    /\ mutex = NoHolder
    /\ walkPc = "idle"

\* The analysis has not started and has nothing to analyse.
AggUnused ==
    /\ source = << >>
    /\ keywords = << >>
    /\ labels = << >>
    /\ all_matches = << >>
    /\ keyword_matches = << >>
    /\ label_matches = << >>
    /\ report = NewReport(0)
    /\ arena = << >>
    /\ aggPc = "idle"

ScanUnused == WalkUnused /\ AggUnused

\* The acquisition has not started and has nothing to work on.
AcquireUnused ==
    /\ listing = << >>
    /\ min = 0
    /\ max = 1
    /\ page = 0
    /\ collected = 0
    /\ packages = << >>
    /\ rankPc = "idle"
    /\ cfg = [hasTerms |-> TRUE, skip |-> TRUE]
    /\ mainPc = "analyze"
    /\ topDirs = {"zipballs", "sources"}
    /\ zips = << >>
    /\ dirs = << >>
    /\ run = 1
    /\ faults = 0
    /\ crashes = 0
    /\ extPc = "idle"
    /\ work = << >>
    /\ extracted = 0
    /\ interrupted = {}
    /\ dlPc = "idle"
    /\ singleDist = FALSE
    /\ tasks = << >>
    /\ results = NoResults
    /\ dlRet = NoReturn
    /\ net = NoRequests
    /\ prevAllOk = FALSE

\* ------------------------------------ a run with --skip-download on its own

\* Package names whose archives lie below zipballs/ at the start.
ExtNames ==
    { <<"v", "/", "p">>,
      <<"v", "/", "p", ".", "tmp">>,
      <<"v", "/", "p", ".", "a">>,
      <<"v", "/", "q">> }

\* The zip files of a set of packages, each complete or cut short, with one
\* top-level directory or none.
ZipsOf(S, single, cut) ==
    [zp \in {ZipballPath(n) : n \in S} |->
        LET n == CHOOSE m \in S : ZipballPath(m) = zp
        IN  [state |-> IF n \in cut THEN "partial" ELSE "full",
             origin |-> n, single |-> n \in single]]

InitExt ==
    /\ ScanUnused
    /\ listing = << >>
    /\ min = 0
    /\ max = 1
    /\ page = 0
    /\ collected = 0
    /\ packages = << >>
    /\ rankPc = "idle"
    /\ cfg = [hasTerms |-> TRUE, skip |-> TRUE]
    /\ mainPc = "start"
    /\ topDirs = {"zipballs", "sources"}
    /\ \E S \in SUBSET ExtNames :
         /\ Cardinality(S) \in 1..MaxZips
         /\ \E single \in SUBSET S : \E cut \in SUBSET S :
              /\ Cardinality(cut) <= 1
              /\ zips = ZipsOf(S, single, cut)
    /\ dirs = << >>
    /\ run = 1
    /\ faults = 0
    /\ crashes = 0
    /\ extPc = "idle"
    /\ work = << >>
    /\ extracted = 0
    /\ interrupted = {}
    /\ dlPc = "idle"
    /\ singleDist = FALSE
    /\ tasks = << >>
    /\ results = NoResults
    /\ dlRet = NoReturn
    /\ net = NoRequests
    /\ prevAllOk = FALSE

NextExt ==
    \/ MainStart
    \/ ExtractPackagesStart
    \/ \E zp \in DOMAIN work : ExtractBegin(zp)
    \/ \E zp \in DOMAIN work : ExtractZipStep(zp)
    \/ \E zp \in DOMAIN work : ExtractZipFault(zp)
    \/ ExtractPackagesEnd
    \/ CrashInExtract
    \/ MainAnalyze
    \/ NewRun

SpecExt == InitExt /\ [][NextExt]_vars

\* C2: an extraction interrupted after the temporary directory has been
\* populated and before the rename leaves no final extraction directory,
\* and a later run that extracts the package ends with the final directory
\* present and holding the complete archive contents.
C2_InterruptedExtraction ==
    /\ \A zp \in DOMAIN work :
         (mainPc \in {"extract", "killed"} /\ extPc = "running" /\ Populated(zp))
            => PackageOfZip(zp) \notin DOMAIN dirs
    /\ \A zp \in DOMAIN work :
         (run > 1 /\ extPc = "done" /\ PackageOfZip(zp) \in interrupted
            /\ \A x \in DOMAIN work : work[x].res = "ok")
            => /\ PackageOfZip(zp) \in DOMAIN dirs
               /\ dirs[PackageOfZip(zp)] = ExpectedTree(zips[zp], ArchiveFiles)

\* C3: in every reachable state, a final extraction directory that exists
\* holds the complete extracted contents of its package's archive: nothing
\* is written at or under the final path before the rename.
C3_FinalIsComplete ==
    \A zp \in DOMAIN zips :
        PackageOfZip(zp) \in DOMAIN dirs
            => dirs[PackageOfZip(zp)] = ExpectedTree(zips[zp], ArchiveFiles)

\* ----------------------------------------------------------- a whole run

\* The project names of the registry's listing, by rank.
Projects == <<"p", "q", "a", "b", "c", "d", "e", "f", "g", "h">>

\* The name at rank i-1 of the registry's listing: v/p, v/p.tmp, an
\* upper-case V/Q, a name without separator, then v/a, v/b, ...
ListedName(i) ==
    CASE i = 1 -> <<"v", "/", "p">>
      [] i = 2 -> <<"v", "/", "p", ".", "tmp">>
      [] i = 3 -> <<"V", "/", "Q">>
      [] i = 4 -> <<"x">>
      [] OTHER -> <<"v", "/", Projects[i - 2]>>

\* A run on a fresh target directory.  The slice starts at rank 0 and is
\* narrow (at most SmallSlice) or the whole listing, or it is empty
\* (min = max, which the validation rejects).
InitMain ==
    /\ ScanUnused
    /\ listing = [i \in 1..NPackages |-> ListedName(i)]
    /\ max \in (0..SmallSlice) \cup {NPackages}
    /\ min \in {0, max, max + 1}
    /\ page = 0
    /\ collected = 0
    /\ packages = << >>
    /\ rankPc = "idle"
    /\ cfg \in [hasTerms : BOOLEAN, skip : BOOLEAN]
    /\ mainPc = "start"
    /\ topDirs = {}
    /\ zips = << >>
    /\ dirs = << >>
    /\ run = 1
    /\ faults = 0
    /\ crashes = 0
    /\ extPc = "idle"
    /\ work = << >>
    /\ extracted = 0
    /\ interrupted = {}
    /\ dlPc = "idle"
    /\ singleDist \in BOOLEAN
    /\ (max - min > SmallSlice) => singleDist
    /\ tasks = << >>
    /\ results = NoResults
    /\ dlRet = NoReturn
    /\ net = NoRequests
    /\ prevAllOk = FALSE

NextMain ==
    \/ MainStart
    \/ DownloadStart
    \/ GetTopPackagesStart
    \/ FetchPageSend
    \/ FetchPageOk
    \/ FetchPageErr
    \/ ListingFailed
    \/ StreamStart
    \/ \E i \in DOMAIN tasks : TaskStart(i)
    \/ \E i \in DOMAIN tasks : \E resp \in MetaResponses(ToLowercase(packages[i])) :
          \E f \in (IF MayFault THEN FailStages ELSE {0}) : TaskMeta(i, resp, f)
    \/ \E i \in DOMAIN tasks : TaskDownloadErr(i)
    \/ \E i \in DOMAIN tasks : \E f \in (IF MayFault THEN FailStages ELSE {0}) :
          TaskDownloadOk(i, f)
    \/ \E i \in DOMAIN tasks : TaskWriteFault(i)
    \/ DownloadReturn
    \/ ExtractPackagesStart
    \/ \E zp \in DOMAIN work : ExtractBegin(zp)
    \/ \E zp \in DOMAIN work : ExtractZipStep(zp)
    \/ \E zp \in DOMAIN work : ExtractZipFault(zp)
    \/ ExtractPackagesEnd
    \/ MainAnalyze
    \/ NewRun

SpecMain == InitMain /\ [][NextMain]_vars

\* C1 (as stated): when the previous run on the same target directory
\* ended with every package acquired, the next run sends no network request
\* at all: no listing request, no metadata request, no archive download.
C1_NoRequestOnRerun ==
    (run > 1 /\ prevAllOk) => net = NoRequests

\* C1 (amended): when the previous run on the same target directory ended
\* with every package acquired and the registry's listing is unchanged, the
\* next run downloads no archive; it still requests the listing and each
\* package's metadata.
C1_NoArchiveOnRerun ==
    (run > 1 /\ prevAllOk) => net.archive = 0

\* A second run after a fully successful one has gone through
\* its packages (listing and metadata were requested) and returned.
C1_Witness ==
    /\ run > 1
    /\ prevAllOk
    /\ dlRet.tag = "Ok"
    /\ net.listing > 0
    /\ net.meta = Len(packages)
    /\ net.archive = 0

\* C4: at every moment of the per-package acquisition, the packages whose
\* acquisition has started and not finished number at most the cap of 5.
C4_InFlightCap ==
    Cardinality(InFlight) <= MAX_CONCURRENT_DOWNLOADS

\* The cap is reached while a further package of the slice
\* still waits to be started.
C4_Witness ==
    /\ Cardinality(InFlight) = MAX_CONCURRENT_DOWNLOADS
    /\ \E i \in DOMAIN tasks : tasks[i] = "pending"

\* C5: a package's failure stops no other package; the call returns the
\* tally (succeeded, failed), with succeeded + failed the number of packages
\* of the slice and failed the number of packages that ended in an error.
C5_TallyReturned ==
    dlRet.tag = "Ok" =>
        /\ \A i \in DOMAIN tasks : tasks[i] \in {"ok", "err"}
        /\ Len(dlRet.value) = 2
        /\ dlRet.value[1] + dlRet.value[2] = Len(packages)
        /\ dlRet.value[2] = Cardinality({i \in DOMAIN tasks : tasks[i] = "err"})

\* C7: with a valid configuration (and no local I/O error), a network
\* failure during the acquisition never propagates: the run does not end
\* with an error but goes on to the analysis and the report.
C7_NetworkFailureContained ==
    (cfg.hasTerms /\ min < max /\ faults = 0) => mainPc # "exit_err"

\* ------------------------------------------- the ranking fetch on its own

\* Names of the listing of the ranking specification: the name at global
\* rank k is the number k.
RankListing(n) == [i \in 1..n |-> i - 1]

InitRank ==
    /\ ScanUnused
    /\ max \in 1..MaxRank
    /\ min \in 0..(max - 1)
    /\ \E n \in 0..MaxListing : listing = RankListing(n)
    /\ page = 0
    /\ collected = 0
    /\ packages = << >>
    /\ rankPc = "idle"
    /\ cfg = [hasTerms |-> TRUE, skip |-> FALSE]
    /\ mainPc = "download"
    /\ topDirs = {}
    /\ zips = << >>
    /\ dirs = << >>
    /\ run = 1
    /\ faults = 0
    /\ crashes = 0
    /\ extPc = "idle"
    /\ work = << >>
    /\ extracted = 0
    /\ interrupted = {}
    /\ dlPc = "listing"
    /\ singleDist = FALSE
    /\ tasks = << >>
    /\ results = NoResults
    /\ dlRet = NoReturn
    /\ net = NoRequests
    /\ prevAllOk = FALSE

NextRank ==
    \/ GetTopPackagesStart
    \/ FetchPageSend
    \/ FetchPageOk
    \/ FetchPageErr

SpecRank == InitRank /\ [][NextRank]_vars

\* The names at global ranks lo .. hi-1 of the listing, in rank order.
RankSlice(l, lo, hi) == SubSeq(l, lo + 1, hi)

\* C6: for 0 <= rangeMin < rangeMax and a listing of at least rangeMax
\* entries, the ranking fetch returns exactly the names at global ranks
\* rangeMin .. rangeMax-1, in rank order, also when rangeMin is not on the
\* first page.
C6_RankingSlice ==
    (rankPc = "ok" /\ Len(listing) >= max)
        => packages = RankSlice(listing, min, max)

\* ------------------------------------------------ the walker on its own

File(name) == [name |-> name, kind |-> "file"]
Subdir(name) == [name |-> name, kind |-> "dir"]
Symlink(name) == [name |-> name, kind |-> "symlink"]

\* A tree of four directories: recognized and other extensions, a file
\* name that is only a dot and "php", an upper-case extension, a double
\* extension and a symbolic link.
DiskNested ==
    (<< >> :> << Subdir(<<"x">>), File(<<"a", ".", "php">>), File(<<"b", ".", "txt">>),
                 Subdir(<<"y">>), File(<<"g", ".", "php">>) >>)
    @@ (<< <<"x">> >> :> << File(<<"c", ".", "php7">>), File(<<".", "php">>),
                            Subdir(<<"z">>) >>)
    @@ (<< <<"y">> >> :> << File(<<"d", ".", "PHP">>), File(<<"e", ".", "php8">>),
                            Symlink(<<"l", ".", "php">>) >>)
    @@ (<< <<"x">>, <<"z">> >> :> << File(<<"f", ".", "tar", ".", "php">>) >>)

\* A tree with a directory whose name ends in ".php" and a file without
\* extension.
DiskDirNamedPhp ==
    (<< >> :> << Subdir(<<"v", ".", "php">>), Subdir(<<"w">>), File(<<"a", ".", "php">>) >>)
    @@ (<< <<"v", ".", "php">> >> :> << File(<<"h", ".", "php">>) >>)
    @@ (<< <<"w">> >> :> << File(<<"i", ".", "php8">>), File(<<"j">>) >>)

\* The trees walked: no directory at base_path, an empty directory, and
\* the two trees above.
Disks == { << >>, (<< >> :> << >>), DiskNested, DiskDirNamedPhp }

InitWalk ==
    /\ AcquireUnused
    /\ AggUnused
    /\ disk \in Disks
    /\ workers \in 1..MaxWorkers
    /\ scope = << >>
    /\ entries = << >>
    /\ mutex = NoHolder
    /\ walkPc = "idle"

NextWalk ==
    \/ WalkFiles
    \/ \E d \in DOMAIN scope : ReadDirBegin(d)
    \/ \E d \in DOMAIN scope : ReadDirEntry(d)
    \/ \E d \in DOMAIN scope : ReadDirLock(d)
    \/ \E d \in DOMAIN scope : ReadDirPush(d)
    \/ WalkFilesReturn

SpecWalk == InitWalk /\ [][NextWalk]_vars

\* The paths of the regular files in and below directory d of a tree.
RECURSIVE FilesUnder(_, _)
FilesUnder(fsys, d) ==
    IF d \notin DOMAIN fsys THEN {}
    ELSE UNION { IF e.kind = "dir" THEN FilesUnder(fsys, Append(d, e.name))
                 ELSE IF e.kind = "file" THEN {Append(d, e.name)}
                 ELSE {} : e \in Range(fsys[d]) }

\* The regular files under the root whose extension is php, php7 or php8.
RecognizedFiles ==
    {p \in FilesUnder(disk, << >>) :
        Extension(p[Len(p)]) \in {<<"php">>, <<"php7">>, <<"php8">>}}

\* The recognized files whose append has been completed by its task.
Appended ==
    {p \in RecognizedFiles :
        LET d == SubSeq(p, 1, Len(p) - 1)
        IN  /\ d \in DOMAIN scope
            /\ \E k \in 1..(scope[d].i - 1) : disk[d][k].name = p[Len(p)]}

\* C10: for every tree, every number of workers and every interleaving of
\* the traversal tasks, the collection walk_files returns holds every
\* regular file under the root with extension php, php7 or php8 exactly
\* once and nothing else; at every moment of the walk the collection holds
\* exactly the files appended so far, each once (no append is lost or
\* duplicated).
C10_DiscoverExactlyOnce ==
    /\ walkPc \in {"scope", "returned"}
          => /\ Range(entries) = Appended
             /\ Len(entries) = Cardinality(Appended)
    /\ walkPc = "returned"
          => /\ Range(entries) = RecognizedFiles
             /\ Len(entries) = Cardinality(RecognizedFiles)

\* The walk of the nested tree has returned with several workers, and a
\* file of a subdirectory was appended before a file of the root.
C10_Witness ==
    /\ walkPc = "returned"
    /\ workers > 1
    /\ Cardinality(DOMAIN scope) >= 4
    /\ Len(entries) >= 5
    /\ \E i, j \in DOMAIN entries : i < j /\ Len(entries[i]) > 1 /\ Len(entries[j]) = 1

\* C11: walk_files returns only after every traversal task spawned in the
\* scope, directly or transitively, has completed: when the collection has
\* been taken out and returned every directory under the root has a task,
\* no task is pending, running or waiting for the lock, the lock is free,
\* and from then on the collection never changes.
C11_ReturnsAfterAllTasks ==
    /\ [](walkPc = "returned"
            => /\ \A d \in DOMAIN scope : scope[d].pc = "done"
               /\ DOMAIN scope = DOMAIN disk
               /\ mutex = NoHolder)
    /\ [][walkPc = "returned" => (entries' = entries /\ scope' = scope)]_vars

\* The walk has returned after tasks spawned by other tasks (a directory
\* two levels below the root) have run on several workers.
C11_Witness ==
    /\ walkPc = "returned"
    /\ workers > 1
    /\ \E d \in DOMAIN scope : Len(d) >= 2 /\ scope[d].pc = "done"

\* C12: walk_files on a base_path that does not exist ends without a
\* failure and yields an empty sequence.
C12_MissingRootYieldsEmpty ==
    (<< >> \notin DOMAIN disk /\ walkPc \notin {"idle", "scope"})
        => (walkPc = "returned" /\ entries = << >>)

\* ---------------------------------------------- the analysis on its own

Node(kind, name, known) == [kind |-> kind, name |-> name, known |-> known]

\* A call of let with its identifier, and a label using.
ProgramA ==
    << Node("FunctionCall", <<"l", "e", "t">>, TRUE),
       Node("LocalIdentifier", <<"l", "e", "t">>, TRUE),
       Node("Label", <<"u", "s", "i", "n", "g">>, TRUE) >>

\* A declaration of LET, a partial application of N\LET, a use of \N\Let
\* and a named argument USING.
ProgramB ==
    << Node("Function", <<"L", "E", "T">>, TRUE),
       Node("FunctionPartialApplication", <<"N", "\\", "L", "E", "T">>, TRUE),
       Node("FullyQualifiedIdentifier", <<"\\", "N", "\\", "L", "e", "t">>, TRUE),
       Node("NamedArgument", <<"U", "S", "I", "N", "G">>, TRUE) >>

\* Nothing that matches: another identifier, a qualified identifier the
\* resolver does not know, a call whose callee is not an identifier.
ProgramC ==
    << Node("LocalIdentifier", <<"f", "o", "o">>, TRUE),
       Node("QualifiedIdentifier", <<"N", "\\", "l", "e", "t">>, FALSE),
       Node("FunctionCall", <<"l", "e", "t">>, FALSE) >>

\* What a file of the corpus can be: whether read_file can read it, whether
\* parse_file reports an error for it, and the program parse_file returns
\* (with an error: the statements parsed before it).
FileContents ==
    { [readable |-> TRUE, parse_error |-> FALSE, program |-> ProgramA],
      [readable |-> TRUE, parse_error |-> FALSE, program |-> ProgramB \o ProgramC],
      [readable |-> TRUE, parse_error |-> TRUE, program |-> ProgramA],
      [readable |-> FALSE, parse_error |-> FALSE, program |-> ProgramA] }

\* The paths of the corpus, below the sources directory.
CorpusPaths ==
    { << <<"symfony">>, <<"console">>, <<"a", ".", "php">> >>,
      << <<"laravel">>, <<"framework">>, <<"b", ".", "php">> >>,
      << <<"Symfony">>, <<"symfony">>, <<"d", ".", "php">> >>,
      << <<"e", ".", "php">> >> }

\* The keyword lists and the label lists requested.
RequestedKeywords ==
    { << >>, << <<"l", "e", "t">> >>,
      << <<"L", "E", "T">>, <<"l", "e", "t">>, <<"f", "n">>, <<"L", "E", "T">> >> }
RequestedLabels ==
    { << >>, << <<"u", "s", "i", "n", "g">> >>,
      << <<"u", "s", "i", "n", "g">>, <<"U", "S", "I", "N", "G">> >> }

\* walk_files has returned some files of the corpus, in some order; the
\* command line holds a keyword or a label (main.rs:97-99).
InitAgg ==
    /\ AcquireUnused
    /\ disk = << >>
    /\ workers = 1
    /\ scope = << >>
    /\ mutex = NoHolder
    /\ walkPc = "returned"
    /\ \E S \in SUBSET CorpusPaths :
         /\ Cardinality(S) <= MaxFiles
         /\ source \in [S -> FileContents]
         /\ entries \in {s \in [1..Cardinality(S) -> S] : Range(s) = S}
    /\ keywords \in RequestedKeywords
    /\ labels \in RequestedLabels
    /\ keywords # << >> \/ labels # << >>
    /\ all_matches = << >>
    /\ keyword_matches = << >>
    /\ label_matches = << >>
    /\ report = NewReport(0)
    /\ arena = << >>
    /\ aggPc = "idle"

NextAgg ==
    \/ AnalyzeDirectory
    \/ \E w \in 1..MaxArenas : \E i \in DOMAIN entries : AnalyzeFile(w, i)
    \/ CollectMatches
    \/ AddKeywordMatch
    \/ AddLabelMatch
    \/ EnsureKeywords

SpecAgg == InitAgg /\ [][NextAgg]_vars

\* The matches of the files analysed, as occurrences <<path, position>>:
\* the multiset of matches, whatever the order of the files.
MatchesOf(p) == AnalyzerRun(source[p], p, keywords, labels)
KeywordOccurrences ==
    UNION {{<<p, j>> : j \in DOMAIN MatchesOf(p).kw} : p \in Range(entries)}
LabelOccurrences ==
    UNION {{<<p, j>> : j \in DOMAIN MatchesOf(p).lbl} : p \in Range(entries)}
KeywordAt(o) == MatchesOf(o[1]).kw[o[2]]
LabelAt(o) == MatchesOf(o[1]).lbl[o[2]]

\* The report of a multiset of matches, by counting: for each key the
\* number of soft and of hard matches and the set of their well-known
\* vendors.
CountedKeywordResults(keys) ==
    [k \in keys |->
        LET mine == {o \in KeywordOccurrences : KeywordAt(o).keyword = k}
        IN  [soft_count |-> Cardinality({o \in mine : ~KeywordAt(o).is_hard}),
             hard_count |-> Cardinality({o \in mine : KeywordAt(o).is_hard}),
             well_known_vendors |-> {KeywordAt(o).vendor : o \in mine} \ {"Other"}]]
CountedLabelResults ==
    [l \in {LabelAt(o).label : o \in LabelOccurrences} |->
        LET mine == {o \in LabelOccurrences : LabelAt(o).label = l}
        IN  [count |-> Cardinality(mine),
             well_known_vendors |-> {LabelAt(o).vendor : o \in mine} \ {"Other"}]]
MatchedKeywords == {KeywordAt(o).keyword : o \in KeywordOccurrences}

\* C8: after analyze_directory, every requested keyword is a key of the
\* report's keyword map, and a requested keyword with no match has
\* soft_count = 0, hard_count = 0 and an empty vendor set.
C8_EveryKeywordReported ==
    aggPc = "done" =>
        \A i \in DOMAIN keywords :
            /\ keywords[i] \in DOMAIN report.keyword_results
            /\ keywords[i] \notin MatchedKeywords
                  => report.keyword_results[keywords[i]]
                        = [soft_count |-> 0, hard_count |-> 0, well_known_vendors |-> {}]

\* The analysis is done, one requested keyword has matches and another has
\* none.
C8_Witness ==
    /\ aggPc = "done"
    /\ \E i, j \in DOMAIN keywords :
         /\ keywords[i] \in MatchedKeywords
         /\ keywords[j] \notin MatchedKeywords
         /\ report.keyword_results[keywords[i]].soft_count > 0

\* C9: the fold gives the report obtained by counting the multiset of
\* matches, whatever the order of the files, the order of the matches and
\* their partition into per-file lists: the same keys and, per key, the
\* same soft_count, hard_count, count and vendor set.
C9_FoldOrderIndependent ==
    /\ aggPc = "ensure"
          => /\ report.keyword_results = CountedKeywordResults(MatchedKeywords)
             /\ report.label_results = CountedLabelResults
    /\ aggPc = "done"
          => /\ report.keyword_results
                    = CountedKeywordResults(MatchedKeywords \cup Range(keywords))
             /\ report.label_results = CountedLabelResults

\* The fold is done over two files in the order laravel, symfony, both
\* with matches of the same keyword and of the same label.
C9_Witness ==
    /\ aggPc = "done"
    /\ Len(entries) >= 2
    /\ VendorOf(entries[1]) = "Laravel"
    /\ VendorOf(entries[2]) = "Symfony"
    /\ \E k \in DOMAIN report.keyword_results :
         /\ report.keyword_results[k].well_known_vendors = {"Laravel", "Symfony"}
         /\ report.keyword_results[k].soft_count >= 2
         /\ report.keyword_results[k].hard_count >= 2
    /\ \E l \in DOMAIN report.label_results : report.label_results[l].count >= 2

\* --------------------------------------- one keyword result on its own

\* The keyword whose result is driven.
TierKeyword == <<"l", "e", "t">>

\* results.rs:131-141: one more match, soft or hard, of a file of some
\* vendor is added to the keyword's result.
KeywordResultAddMatch(is_hard, vendor) ==
    /\ aggPc = "keywords"
    /\ TotalCount(report.keyword_results[TierKeyword]) < MaxCount
    /\ report' = [report EXCEPT !.keyword_results[TierKeyword] =
                      KeywordAddMatch(@, KeywordMatch(TierKeyword, vendor, is_hard))]
    /\ UNCHANGED <<walkVars, arena, source, keywords, labels, all_matches, keyword_matches,
                   label_matches, aggPc>>
    /\ UNCHANGED <<rankVars, mainVars, fsVars, extVars, dlVars>>

\* A fold in progress whose report holds the fresh result of one keyword.
InitTier ==
    /\ AcquireUnused
    /\ WalkUnused
    /\ source = << >>
    /\ keywords = <<TierKeyword>>
    /\ labels = << >>
    /\ all_matches = << >>
    /\ keyword_matches = << >>
    /\ label_matches = << >>
    /\ report = [NewReport(0) EXCEPT !.keyword_results = (TierKeyword :> NewKeywordResult)]
    /\ arena = << >>
    /\ aggPc = "keywords"

NextTier ==
    \E is_hard \in BOOLEAN : \E vendor \in {"Other", "Symfony"} :
        KeywordResultAddMatch(is_hard, vendor)

SpecTier == InitTier /\ [][NextTier]_vars

\* C13: for every keyword result, the hard impact tier (of soft_count +
\* hard_count) is at least the soft impact tier (of soft_count) in the
\* order None < Low < Medium < High < Critical.
C13_HardImpactAtLeastSoft ==
    \A k \in DOMAIN report.keyword_results :
        ImpactOrd(HardImpact(report.keyword_results[k]))
            >= ImpactOrd(SoftImpact(report.keyword_results[k]))

\* A result whose hard count lies in a lower tier than its soft count and
\* lifts the total into the next tier.
C13_Witness ==
    \E k \in DOMAIN report.keyword_results :
        /\ report.keyword_results[k].soft_count = 100
        /\ report.keyword_results[k].hard_count = 1
        /\ SoftImpact(report.keyword_results[k]) = "Medium"
        /\ HardImpact(report.keyword_results[k]) = "High"

\* The tier the specification gives a count.
TierOfCount(n) ==
    IF n = 0 THEN "None"
    ELSE IF n <= 25 THEN "Low"
    ELSE IF n <= 100 THEN "Medium"
    ELSE IF n <= 500 THEN "High"
    ELSE "Critical"

\* C14: the impact tier of a count n is None for 0, Low for 1..25, Medium
\* for 26..100, High for 101..500 and Critical above 500, and it never
\* decreases when the count grows: checked on the soft count and on the
\* total count of every keyword result.
C14_TierByCount ==
    \A k \in DOMAIN report.keyword_results :
        LET r == report.keyword_results[k]
            n == r.soft_count
            t == TotalCount(r)
        IN  /\ SoftImpact(r) = TierOfCount(n)
            /\ HardImpact(r) = TierOfCount(t)
            /\ ImpactOrd(Calculate(n)) <= ImpactOrd(Calculate(t))
            /\ t > 0 => ImpactOrd(Calculate(t - 1)) <= ImpactOrd(Calculate(t))

\* A result across the last boundary: a soft count of 500 is High and the
\* total of 501 is Critical.
C14_Witness ==
    \E k \in DOMAIN report.keyword_results :
        /\ report.keyword_results[k].soft_count = 500
        /\ report.keyword_results[k].hard_count = 1
        /\ SoftImpact(report.keyword_results[k]) = "High"
        /\ HardImpact(report.keyword_results[k]) = "Critical"

\* The vendor the specification gives a first path segment.
VendorOfSegment(segment) ==
    CASE segment = <<"symfony">> -> "Symfony"
      [] segment = <<"laravel">> -> "Laravel"
      [] segment = <<"doctrine">> -> "Doctrine"
      [] segment = <<"phpunit">> -> "Phpunit"
      [] segment = <<"twig">> -> "Twig"
      [] segment = <<"illuminate">> -> "Illuminate"
      [] OTHER -> "Other"

\* C15: the vendor of every match of a file is the vendor of the first
\* segment of the file's path below the sources directory: the well-known
\* vendor when the segment is exactly its name, Other for every other
\* segment, whatever the file holds.
C15_VendorByFirstSegment ==
    \A i \in DOMAIN all_matches :
        /\ VendorOf(entries[i]) = VendorOfSegment(entries[i][1])
        /\ \A j \in DOMAIN all_matches[i].kw :
              all_matches[i].kw[j].vendor = VendorOfSegment(entries[i][1])
        /\ \A j \in DOMAIN all_matches[i].lbl :
              all_matches[i].lbl[j].vendor = VendorOfSegment(entries[i][1])

\* Two files with the same content and matches: one below symfony/, one
\* below Symfony/symfony/.
C15_Witness ==
    \E i, j \in DOMAIN all_matches :
        /\ entries[i][1] = <<"symfony">>
        /\ entries[j][1] = <<"Symfony">>
        /\ source[entries[i]] = source[entries[j]]
        /\ all_matches[i].kw # << >>
        /\ all_matches[j].kw # << >>
        /\ all_matches[i].kw[1].vendor = "Symfony"
        /\ all_matches[j].kw[1].vendor = "Other"

\* The upper-case form of a letter, and equality of two names up to the
\* case of their letters.
UpperLetter(c) ==
    CASE c = "l" -> "L"
      [] c = "e" -> "E"
      [] c = "t" -> "T"
      [] c = "u" -> "U"
      [] c = "s" -> "S"
      [] c = "i" -> "I"
      [] c = "n" -> "N"
      [] c = "g" -> "G"
      [] c = "f" -> "F"
      [] c = "o" -> "O"
      [] OTHER   -> c
SameIgnoringCase(a, b) ==
    /\ Len(a) = Len(b)
    /\ \A i \in DOMAIN a : UpperLetter(a[i]) = UpperLetter(b[i])

\* The function declarations, call targets and partial-application targets
\* of the readable files analysed whose name is k up to case, as
\* occurrences <<path, position>>.
SoftOccurrences(k) ==
    UNION {{<<p, j>> : j \in {n \in DOMAIN source[p].program :
                LET node == source[p].program[n]
                IN  /\ source[p].readable
                    /\ \/ node.kind = "Function"
                       \/ node.kind \in {"FunctionCall", "FunctionPartialApplication"}
                            /\ node.known
                    /\ SameIgnoringCase(LastSegment(node.name), k)}}
           : p \in Range(entries)}

\* C16 (as stated): for every requested keyword k, each function
\* declaration and each call target whose name is k in any letter case is
\* a soft match counted under k in the report.
C16_SoftMatchUnderKeyword ==
    aggPc = "done" =>
        \A i \in DOMAIN keywords :
            report.keyword_results[keywords[i]].soft_count
                = Cardinality(SoftOccurrences(keywords[i]))

\* C16 (amended): the same, for every requested keyword k that no earlier
\* requested keyword equals up to case; a name that several requested
\* keywords equal up to case is counted under the first of them only.
C16_SoftMatchUnderFirstKeyword ==
    aggPc = "done" =>
        \A i \in DOMAIN keywords :
            (\A j \in 1..(i - 1) : ~SameIgnoringCase(keywords[j], keywords[i]))
                => report.keyword_results[keywords[i]].soft_count
                      = Cardinality(SoftOccurrences(keywords[i]))

\* The report counts, under a requested keyword written LET, a call of let
\* and a declaration of LET.
C16_Witness ==
    /\ aggPc = "done"
    /\ keywords # << >>
    /\ keywords[1] = <<"L", "E", "T">>
    /\ \E o \in SoftOccurrences(keywords[1]) :
          source[o[1]].program[o[2]].name = <<"l", "e", "t">>
    /\ \E o \in SoftOccurrences(keywords[1]) :
          source[o[1]].program[o[2]].kind = "Function"
    /\ report.keyword_results[keywords[1]].soft_count >= 2

\* The goto labels and named arguments of the readable files analysed
\* whose name is l up to case, as occurrences <<path, position>>.
LabelNodeOccurrences(l) ==
    UNION {{<<p, j>> : j \in {n \in DOMAIN source[p].program :
                LET node == source[p].program[n]
                IN  /\ source[p].readable
                    /\ node.kind \in {"Label", "NamedArgument"}
                    /\ SameIgnoringCase(node.name, l)}}
           : p \in Range(entries)}

\* C17: for every requested label term L, the label result recorded under
\* L counts every goto label and named argument whose name is L up to
\* case, and the report holds no label record under another name.
C17_LabelCountedUnderTerm ==
    aggPc = "done" =>
        /\ \A i \in DOMAIN labels :
              LabelNodeOccurrences(labels[i]) # {}
                  => /\ labels[i] \in DOMAIN report.label_results
                     /\ report.label_results[labels[i]].count
                           = Cardinality(LabelNodeOccurrences(labels[i]))
        /\ DOMAIN report.label_results \subseteq Range(labels)

\* C18: a run started with the skip-download switch on a target directory
\* that has no sources directory (the first run starts on an empty target
\* directory) ends with an error and displays no report.
C18_MissingSourcesFatal ==
    (run = 1 /\ cfg.skip) => mainPc # "report"

\* C19: in every reachable state the archive at a zipball path is absent
\* or holds the complete downloaded bytes, so that zipball_path.exists()
\* never finds an archive cut short.
C19_ArchiveAbsentOrComplete ==
    \A zp \in DOMAIN zips : ZipballExists(zips, zp) => zips[zp].state = "full"

\* C20: when no keyword and no label is given, or when min >= max, the run
\* ends with an error at its start: no request is made, no directory or
\* archive is created, nothing is downloaded, extracted or analysed.
C20_ValidatedBeforeIO ==
    (~cfg.hasTerms \/ min >= max)
        => /\ mainPc \in {"start", "exit_err"}
           /\ net = NoRequests
           /\ topDirs = {} /\ zips = << >> /\ dirs = << >>
           /\ dlPc = "idle" /\ extPc = "idle" /\ rankPc = "idle"
           /\ tasks = << >> /\ work = << >>

\* A run with a keyword, without the skip switch and with min >= max has
\* ended with the error; so has a run without any term.
C20_Witness ==
    /\ mainPc = "exit_err"
    /\ run > 1
    /\ \/ cfg.hasTerms /\ ~cfg.skip /\ min >= max
       \/ ~cfg.hasTerms /\ min < max

\* C21: when a package's archive and its extraction directory both exist
\* and the metadata answer carries a dist, the package's acquisition
\* requests no archive, leaves the archives and the directories as they
\* are and ends as a success; extract_packages then skips the package too.
C21_SkipWhenBothExist ==
    [][/\ \A i \in DOMAIN tasks :
            (/\ tasks[i] = "meta"
             /\ tasks'[i] # "meta"
             /\ ZipballPath(ToLowercase(packages[i])) \in DOMAIN zips
             /\ ExtractDir(ToLowercase(packages[i])) \in DOMAIN dirs)
                => \A resp \in MetaResponses(ToLowercase(packages[i])) :
                    (/\ HasDist(resp, ToLowercase(packages[i]))
                     /\ TaskMeta(i, resp, 0))
                        => /\ tasks'[i] = "ok"
                           /\ results' = Collect(results, "Ok")
                           /\ net' = net
                           /\ zips' = zips
                           /\ dirs' = dirs
       /\ \A zp \in DOMAIN work :
            (/\ work[zp].res = "none"
             /\ work[zp].stage = -1
             /\ PackageOfZip(zp) \in DOMAIN dirs
             /\ ExtractBegin(zp))
                => /\ work'[zp].res = "ok"
                   /\ dirs' = dirs /\ zips' = zips]_vars

\* A second run has processed a package that the first run had fully
\* acquired, without requesting an archive.
C21_Witness ==
    /\ run > 1
    /\ prevAllOk
    /\ tasks # << >>
    /\ tasks[1] = "ok"
    /\ net.archive = 0
    /\ ZipballPath(ToLowercase(packages[1])) \in DOMAIN zips
    /\ dirs[ExtractDir(ToLowercase(packages[1]))] = ExpectedTree(zips[ZipballPath(ToLowercase(packages[1]))], ArchiveFiles)

\* C22: a package whose lower-cased name does not split into two parts
\* fails before any request; a package whose metadata lacks the name, has
\* an empty version list or has no dist in its last version fails after the
\* metadata request.  In each case no archive is requested, no archive and
\* no directory is created, and only this package's task changes.
C22_InvalidPackageFailsAlone ==
    [][/\ \A i \in DOMAIN tasks :
            (/\ tasks[i] = "pending"
             /\ tasks'[i] # "pending"
             /\ Len(Split(ToLowercase(packages[i]), "/")) # 2
             /\ TaskStart(i))
                => /\ tasks' = [tasks EXCEPT ![i] = "err"]
                   /\ results' = Collect(results, "Err")
                   /\ net' = net
                   /\ UNCHANGED <<fsVars, dlPc, mainPc>>
       /\ \A i \in DOMAIN tasks :
            (tasks[i] = "meta" /\ tasks'[i] # "meta")
                => \A resp \in MetaResponses(ToLowercase(packages[i])) :
                    LET n == ToLowercase(packages[i])
                    IN  (/\ resp.kind = "doc"
                     /\ \/ n \notin DOMAIN resp.packages
                        \/ resp.packages[n] = << >>
                        \/ ~resp.packages[n][Len(resp.packages[n])].dist
                     /\ TaskMeta(i, resp, 0))
                        => /\ tasks' = [tasks EXCEPT ![i] = "err"]
                           /\ results' = Collect(results, "Err")
                           /\ net' = net
                           /\ UNCHANGED <<fsVars, dlPc, mainPc>>]_vars

\* In one run the package x has failed without a request, a package with a
\* valid name has failed without an archive or a directory, and another
\* package has been acquired.
C22_Witness ==
    /\ dlPc = "stream"
    /\ \E i \in DOMAIN tasks :
          /\ packages[i] = <<"x">>
          /\ tasks[i] = "err"
          /\ net.meta < Cardinality({j \in DOMAIN tasks : tasks[j] # "pending"})
    /\ \E k \in DOMAIN tasks :
          /\ Len(Split(ToLowercase(packages[k]), "/")) = 2
          /\ tasks[k] = "err"
          /\ ZipballPath(ToLowercase(packages[k])) \notin DOMAIN zips
          /\ ExtractDir(ToLowercase(packages[k])) \notin DOMAIN dirs
    /\ \E j \in DOMAIN tasks : tasks[j] = "ok"

\* The extractions of extract_packages that are under way.
Extracting == {zp \in DOMAIN work : work[zp].res = "none" /\ work[zp].stage >= 1}

\* C23: the temporary directory of an extraction under way is not the
\* final directory of its package, and for two extractions under way at
\* the same time the temporary directory of one is neither the temporary
\* nor the final directory of the other.
C23_PrivateTempDirs ==
    /\ \A zp \in Extracting : TempDir(PackageOfZip(zp)) # PackageOfZip(zp)
    /\ \A zp \in Extracting : \A zq \in Extracting \ {zp} :
          /\ TempDir(PackageOfZip(zp)) # TempDir(PackageOfZip(zq))
          /\ TempDir(PackageOfZip(zp)) # PackageOfZip(zq)

\* The tree an archive describes: its directory entries, its files and
\* their parent directories.
ArchiveTree(z, nfiles) ==
    LET es == ArchiveEntries(z, nfiles)
    IN  UNION {IF es[i].dir
               THEN {DirNode(SubSeq(es[i].name, 1, k)) : k \in 1..Len(es[i].name)}
               ELSE {FileNode(es[i].name, z.origin)}
                    \cup {DirNode(SubSeq(es[i].name, 1, k)) : k \in 1..(Len(es[i].name) - 1)}
               : i \in DOMAIN es}

\* C24: when extract_zip has succeeded for a package, the final directory
\* holds the contents of the archive's top-level directory if that is the
\* archive's only top-level entry, and all top-level entries of the archive
\* otherwise; the temporary directory does not exist.
C24_FlattenedFinalNoTemp ==
    \A zp \in DOMAIN work :
        (work[zp].res = "ok" /\ work[zp].stage >= 1)
            => LET final == PackageOfZip(zp)
                   tree  == ArchiveTree(zips[zp], ArchiveFiles)
                   top   == TopEntries(tree)
               IN  /\ final \in DOMAIN dirs
                   /\ dirs[final] = IF SingleSubdir(top)
                                    THEN Below(tree, (CHOOSE e \in top : TRUE).name)
                                    ELSE tree
                   /\ TempDir(final) \notin DOMAIN dirs

\* The name a keyword category compares: the text of a declaration's name
\* or of a local identifier, else the last segment of the name.
ComparedName(node) ==
    IF node.kind \in {"Function", "LocalIdentifier"} THEN node.name
    ELSE LastSegment(node.name)

\* Whether a node is visited by one of the six keyword categories and
\* passes the category's own test.
InKeywordCategory(node) ==
    \/ node.kind \in {"Function", "LocalIdentifier", "FullyQualifiedIdentifier"}
    \/ /\ node.kind \in {"FunctionCall", "FunctionPartialApplication", "QualifiedIdentifier"}
       /\ node.known

\* The keywords a program's matches are for: one per node whose name some
\* requested keyword equals up to case, namely the first such keyword of
\* the request.
FirstKeywords(program, kws) ==
    LET named(node) == {i \in DOMAIN kws : SameIgnoringCase(ComparedName(node), kws[i])}
        hit == SelectSeq(program, LAMBDA node : InKeywordCategory(node) /\ named(node) # {})
    IN  [j \in 1..Len(hit) |->
            kws[CHOOSE i \in named(hit[j]) : \A k \in named(hit[j]) : i <= k]]

\* C25: the keyword matches of an analysed file are, node by node, at most
\* one match per visited node, for the first requested keyword that equals
\* the node's name ignoring case, also when the request repeats a keyword
\* or holds case variants of it.  (The results of the files are written
\* during the map and stay as they are afterwards.)
C25_FirstKeywordOnly ==
    aggPc = "map" =>
        \A i \in DOMAIN all_matches :
            source[entries[i]].readable
                => [j \in DOMAIN all_matches[i].kw |-> all_matches[i].kw[j].keyword]
                      = FirstKeywords(source[entries[i]].program, keywords)

\* A file with a call of let has been analysed for the request LET, let,
\* fn, LET: its matches are for LET.
C25_Witness ==
    /\ Len(keywords) = 4
    /\ \E i \in DOMAIN all_matches :
          /\ source[entries[i]].readable
          /\ source[entries[i]].program = ProgramA
          /\ Len(all_matches[i].kw) = 2
          /\ all_matches[i].kw[1].keyword = <<"L", "E", "T">>

\* C26: a file for which the parser reports an error contributes no
\* keyword match and no label match.
C26_MalformedContributesNothing ==
    \A i \in DOMAIN all_matches :
        source[entries[i]].parse_error
            => all_matches[i] = [kw |-> << >>, lbl |-> << >>]

\* The matches of the walk of the files analysed that can be read, as
\* occurrences <<path, position>>, and the match at an occurrence.
WalkOf(p) == WalkProgram(source[p].program, 1, keywords, labels, VendorOf(p))
ReadableEntries == {p \in Range(entries) : source[p].readable}
ReadableKeywordOccurrences ==
    UNION {{<<p, j>> : j \in DOMAIN WalkOf(p).kw} : p \in ReadableEntries}
ReadableLabelOccurrences ==
    UNION {{<<p, j>> : j \in DOMAIN WalkOf(p).lbl} : p \in ReadableEntries}

\* C27: a file that cannot be read gives no match, every other file gives
\* the matches of its own walk, and the counts of the finished report are
\* those of the readable files alone.
C27_UnreadableContained ==
    /\ aggPc = "map" =>
          \A i \in DOMAIN all_matches :
              all_matches[i] = IF source[entries[i]].readable THEN WalkOf(entries[i])
                               ELSE [kw |-> << >>, lbl |-> << >>]
    /\ aggPc = "done" =>
          /\ \A k \in DOMAIN report.keyword_results :
                LET mine == {o \in ReadableKeywordOccurrences : WalkOf(o[1]).kw[o[2]].keyword = k}
                IN  /\ report.keyword_results[k].soft_count
                          = Cardinality({o \in mine : ~WalkOf(o[1]).kw[o[2]].is_hard})
                    /\ report.keyword_results[k].hard_count
                          = Cardinality({o \in mine : WalkOf(o[1]).kw[o[2]].is_hard})
          /\ \A l \in DOMAIN report.label_results :
                report.label_results[l].count
                    = Cardinality({o \in ReadableLabelOccurrences : WalkOf(o[1]).lbl[o[2]].label = l})
          /\ \A o \in ReadableKeywordOccurrences :
                WalkOf(o[1]).kw[o[2]].keyword \in DOMAIN report.keyword_results
          /\ \A o \in ReadableLabelOccurrences :
                WalkOf(o[1]).lbl[o[2]].label \in DOMAIN report.label_results

\* A report is finished for two files, one that cannot be read and one
\* whose matches are counted.
C27_Witness ==
    /\ aggPc = "done"
    /\ \E p \in Range(entries) : ~source[p].readable
    /\ \E p \in ReadableEntries : WalkOf(p).kw # << >> /\ WalkOf(p).lbl # << >>
    /\ \E k \in DOMAIN report.keyword_results : report.keyword_results[k].hard_count > 0
    /\ report.total_files = 2

\* C28: the Bump a file has just been analysed in holds the trees of that
\* file alone, so no Bump ever holds the trees of more than one file.
C28_ArenaResetBetweenFiles ==
    \A w \in DOMAIN arena : Cardinality(arena[w]) <= 1

\* The ranking fetch with its requests always answered: a request that is
\* sent completes, with a page or with a failure.
SpecRankFair == SpecRank /\ WF_vars(NextRank)

\* C29: the ranking fetch ends for every listing, also one shorter than
\* rangeMax: it returns the names or an error.
C29_RankingFetchEnds == <>(rankPc \in {"ok", "err"})

\* The keyword matches and the label matches folded into the report so
\* far: the flattened lists without the part still to be folded.
FoldedKeywordMatches ==
    LET full == Flatten([i \in DOMAIN all_matches |-> all_matches[i].kw], 1)
    IN  SubSeq(full, 1, Len(full) - Len(keyword_matches))
FoldedLabelMatches ==
    LET full == Flatten([i \in DOMAIN all_matches |-> all_matches[i].lbl], 1)
    IN  IF aggPc = "keywords" THEN << >>
        ELSE SubSeq(full, 1, Len(full) - Len(label_matches))

\* The vendors the program knows by name.
WellKnownVendors == {"Symfony", "Laravel", "Doctrine", "Phpunit", "Twig", "Illuminate"}

\* C30: in every state of the fold, no vendor set of a keyword or label
\* result holds Other, and a well-known vendor is in the set of a term
\* exactly when a match folded so far for that term carries it.
C30_VendorSetsExact ==
    aggPc \in {"keywords", "labels", "ensure", "done"} =>
        LET fk == FoldedKeywordMatches
            fl == FoldedLabelMatches
        IN  /\ \A k \in DOMAIN report.keyword_results :
                  /\ "Other" \notin report.keyword_results[k].well_known_vendors
                  /\ \A v \in WellKnownVendors \cup report.keyword_results[k].well_known_vendors :
                        v \in report.keyword_results[k].well_known_vendors
                            <=> \E j \in DOMAIN fk : fk[j].keyword = k /\ fk[j].vendor = v
            /\ \A l \in DOMAIN report.label_results :
                  /\ "Other" \notin report.label_results[l].well_known_vendors
                  /\ \A v \in WellKnownVendors \cup report.label_results[l].well_known_vendors :
                        v \in report.label_results[l].well_known_vendors
                            <=> \E j \in DOMAIN fl : fl[j].label = l /\ fl[j].vendor = v

\* In the middle of the fold of the keyword matches, a keyword has a match
\* of Symfony and a match of another vendor folded, and more to come.
C30_Witness ==
    /\ aggPc = "keywords"
    /\ keyword_matches # << >>
    /\ \E k \in DOMAIN report.keyword_results :
          /\ report.keyword_results[k].well_known_vendors = {"Symfony"}
          /\ Head(keyword_matches).keyword = k
          /\ \E j \in DOMAIN FoldedKeywordMatches :
                FoldedKeywordMatches[j].keyword = k /\ FoldedKeywordMatches[j].vendor = "Other"

====
